---- MODULE Spec2Model ----
(***************************************************************************)
(* Peridot cross-chain monitor (icp-chain-fusion/src/peridot_monitor).     *)
(*                                                                         *)
(* State machines over one set of variables:                               *)
(*   Spec        the Chain Sync Engine of chain_fusion_manager.rs on top   *)
(*               of the Endpoint Rotator of rpc_manager.rs;                *)
(*   SpecLedger  the Dedup Ledger of state.rs driven by job.rs;            *)
(*   SpecMonitor the second sync engine of event_monitor.rs;               *)
(*   SpecGuard   the Task Guard of guard.rs;                               *)
(*   SpecQuery   the Risk Aggregator of enhanced_api.rs over a store;      *)
(*   SpecRisk    calculate_liquidation_risk of enhanced_api.rs;            *)
(*   SpecRotator the Endpoint Rotator of rpc_manager.rs called directly.   *)
(*                                                                         *)
(* Scheduling is cooperative: an action is the code that runs between two  *)
(* suspension points (the RPC round trips).  Timestamps (updated_at, read  *)
(* from ic_cdk::api::time) are not part of the state.                      *)
(***************************************************************************)
EXTENDS Integers, Sequences, FiniteSets, TLC

VARIABLES
    \* ---- rpc_manager.rs: RpcManager
    current_provider_index, \* HashMap<u64, usize>, a partial function
    call,                   \* the call_with_fallback in progress
    \* ---- chain_fusion_manager.rs: ChainFusionManager
    last_synced_blocks,     \* HashMap<u64, u64>, a partial function
    sync,                   \* the sync_chain_events invocation in progress
    all,                    \* the sync_all_chains invocation in progress
    reported,               \* largest latest block reported per chain (ghost)
    \* ---- state.rs: State
    user_positions,         \* BTreeMap<(String, u64), UserPosition>
    market_states,          \* BTreeMap<u64, MarketState>
    logs_to_process,        \* BTreeMap<LogSource, Log>  (in flight)
    processed_logs,         \* BTreeMap<LogSource, Log>
    ledger,                 \* history of the ledger operations (ghost)
    \* ---- event_monitor.rs: thread-local stores of the second engine
    em_positions,           \* USER_POSITIONS
    em_markets,             \* MARKET_STATES
    em,                     \* the event_monitor sync in progress + history
    \* ---- state.rs / guard.rs: the Task Guard
    active_tasks,           \* State::active_tasks, HashSet<TaskType>
    timer,                  \* the invocations of the guarded tasks
    \* ---- enhanced_api.rs
    query                   \* the latest query and what it returned

vars == <<current_provider_index, call, last_synced_blocks, sync, all,
          reported,
          user_positions, market_states, logs_to_process, processed_logs,
          ledger,
          em_positions, em_markets, em, active_tasks, timer, query>>

rpcVars    == <<current_provider_index, call>>
syncVars   == <<last_synced_blocks, sync, all, reported>>
ledgerVars == <<logs_to_process, processed_logs, ledger>>
emVars     == <<em_positions, em_markets, em>>
guardVars  == <<active_tasks, timer>>
apiVars    == <<query>>

----------------------------------------------------------------------------
\* Bounds of the model.

\* an endpoint of chain c reports as latest block 0 or a block from MaxBehind
\* below to MaxAhead above the chain's confirmation depth
MaxAhead == 2
MaxBehind == 1
\* largest number of logs one eth_getLogs answer holds
MaxWindow == 2
\* how many logs event_monitor.rs is handed in all
MaxEmEvents == 4
\* how many invocations of guarded tasks can be in progress at once
MaxInvocations == 3
\* largest collateral or borrow value of a stored position, in 100 USD
MaxAmount == 2
\* largest health factor calculate_liquidation_risk is applied to, in tenths
MaxTenths == 24

----------------------------------------------------------------------------
\* Program constants.

MonadChainId == 41454
BnbChainId == 97
\* the chain id job.rs falls back to; no table of the sync engine configures it
JobDefaultChainId == 10143
MonadConfirmationBlocks == 12
BnbConfirmationBlocks == 6
\* number of RpcService entries RpcManager::new registers per chain
MonadProviderCount == 2
BnbProviderCount == 2

\* all chain ids a caller may pass
ChainIds == {MonadChainId, BnbChainId, JobDefaultChainId}

\* ChainFusionManager::new: chain_configs, chain_id -> confirmation_blocks
chain_configs ==
    [c \in {MonadChainId, BnbChainId} |->
        [chain_id |-> c,
         confirmation_blocks |->
            IF c = MonadChainId THEN MonadConfirmationBlocks
                                ELSE BnbConfirmationBlocks]]

\* RpcManager::new: providers, chain_id -> Vec<RpcService> (0-indexed), an
\* endpoint being named by its url
providers ==
    [c \in {MonadChainId, BnbChainId} |->
        IF c = MonadChainId
        THEN [i \in 0..(MonadProviderCount - 1) |->
                IF i = 0 THEN "https://testnet-rpc.monad.xyz"
                         ELSE "https://testnet-rpc-2.monad.xyz"]
        ELSE [i \in 0..(BnbProviderCount - 1) |->
                IF i = 0 THEN "https://data-seed-prebsc-1-s1.binance.org:8545"
                         ELSE "https://data-seed-prebsc-2-s1.binance.org:8545"]]

----------------------------------------------------------------------------
\* HashMap / BTreeMap helpers.

None == "None"

\* map.get(k).unwrap_or(d)
GetOr(m, k, d) == IF k \in DOMAIN m THEN m[k] ELSE d

\* map.insert(k, v)
Insert(m, k, v) == [x \in (DOMAIN m) \cup {k} |-> IF x = k THEN v ELSE m[x]]

\* map.remove(k)
Remove(m, k) == [x \in (DOMAIN m) \ {k} |-> m[x]]

EmptyMap == [x \in {} |-> None]

\* map.get(k) as an Option: <<>> or <<value>>
Get(m, k) == IF k \in DOMAIN m THEN <<m[k]>> ELSE <<>>

----------------------------------------------------------------------------
\* Logs.  A topic is a 32-byte word, written as its hex string.

\* chain_fusion_manager.rs / event_monitor.rs: the five event signatures
MINT_EVENT_SIGNATURE ==
    "0x4c209b5fc8ad50758f13e2e1088ba56a560dff690a1c6fef26394f4c03821c4f"
REDEEM_EVENT_SIGNATURE ==
    "0xe5b754fb1abb7f01b499791d0b820ae3b6af3424ac1c59768edb53c4ec31a929"
BORROW_EVENT_SIGNATURE ==
    "0x13ed6866d4e1ee6da46f845c46d7e6b8c23c8e7b8a2adb2e2e6e4c8f6d7c2e9f"
REPAY_BORROW_EVENT_SIGNATURE ==
    "0xa615e577de3f5b5e7b2b4b7f8c5a3b2a1e9f8c7e6d5b4a3c2d1f0e9d8c7b6a5"
LIQUIDATE_BORROW_EVENT_SIGNATURE ==
    "0xb3e2ad3f0d0a8b4c5e6d7f8a9b0c1d2e3f4a5b6c7d8e9f0a1b2c3d4e5f6a7b8"

\* a topic0 that is none of the five (ERC-20 Transfer)
TransferSignature ==
    "0xddf252ad1be2c89b69c2b068fc378daa952ba7f163c4a11628f55a4df523b3ef"

\* an indexed address parameter: 12 bytes of padding and the 20-byte address
UserWordA ==
    "0x000000000000000000000000aaaaaaaaaaaaaaaaaaaaaaaaaaaaaaaaaaaaaaaa"
UserWordB ==
    "0x000000000000000000000000bbbbbbbbbbbbbbbbbbbbbbbbbbbbbbbbbbbbbbbb"

\* format!("0x{}", hex::encode(&topic[12..])): the last 20 bytes of the word
AddressOfWord(w) ==
    CASE w = UserWordA -> "0xaaaaaaaaaaaaaaaaaaaaaaaaaaaaaaaaaaaaaaaa"
      [] w = UserWordB -> "0xbbbbbbbbbbbbbbbbbbbbbbbbbbbbbbbbbbbbbbbb"
      [] OTHER -> "0x" \o "<last 20 bytes>"

\* the address of the Peridot contract of a chain, as Address prints it
\* (EIP-55 mixed case)
MonadContract == "0xa41D586530BC7BC872095950aE03a780d5114445"
BnbContract == "0xe797A0001A3bC1B2760a24c3D7FDD172906bCCd6"

\* alloy::rpc::types::Log
MkLog(tx, idx, address, topics) ==
    [transaction_hash |-> tx, log_index |-> idx, address |-> address,
     topics |-> topics]

\* the logs an endpoint of the Chain Sync Engine returns: one per behaviour
\* of process_single_event (a position created, a known kind with an empty
\* handler, no topics)
SyncLogs ==
    { MkLog("0x01", 0, "", <<MINT_EVENT_SIGNATURE, UserWordA>>),
      MkLog("0x01", 1, "", <<BORROW_EVENT_SIGNATURE, UserWordA>>),
      MkLog("0x04", 0, "", <<>>) }

\* Filter::address(contract_address): the logs of an answer are those of the
\* chain's contract
FromContract(chain_id, logs) ==
    [k \in DOMAIN logs |->
        [logs[k] EXCEPT !.address = IF chain_id = MonadChainId
                                    THEN MonadContract ELSE BnbContract]]

\* Vec<Log> of at most n entries of U
Windows(U, n) == UNION { [1..k -> U] : k \in 0..n }

----------------------------------------------------------------------------
\* rpc_manager.rs: the Endpoint Rotator.

\* RpcManager::get_provider
get_provider(index, chain_id) ==
    IF chain_id \notin DOMAIN providers THEN None
    ELSE LET i == GetOr(index, chain_id, 0)
         IN  IF i \in DOMAIN providers[chain_id]
             THEN providers[chain_id][i] ELSE None

\* mutant of rotate_provider: the index is stored back without the increment
rotate_provider_Stuck(index, chain_id) ==
    IF chain_id \notin DOMAIN providers THEN index
    ELSE Insert(index, chain_id, GetOr(index, chain_id, 0))

\* mutant of rotate_provider: the index stops at the last endpoint instead of
\* wrapping around
rotate_provider_NoWrap(index, chain_id) ==
    IF chain_id \notin DOMAIN providers THEN index
    ELSE LET n == Cardinality(DOMAIN providers[chain_id])
             current_index == GetOr(index, chain_id, 0)
             next_index == IF current_index + 1 < n THEN current_index + 1
                           ELSE current_index
         IN  Insert(index, chain_id, next_index)

\* mutant of rotate_provider: one rotation moves the index of every chain
rotate_provider_Global(index, chain_id) ==
    IF chain_id \notin DOMAIN providers THEN index
    ELSE [c \in DOMAIN providers |->
            (GetOr(index, c, 0) + 1) % Cardinality(DOMAIN providers[c])]

\* mutant of rotate_provider: the increment is stored without the modulo
rotate_provider_NoModulo(index, chain_id) ==
    IF chain_id \notin DOMAIN providers THEN index
    ELSE Insert(index, chain_id, GetOr(index, chain_id, 0) + 1)

\* RpcManager::rotate_provider: the new current_provider_index
rotate_provider(index, chain_id) ==
    IF chain_id \notin DOMAIN providers THEN index
    ELSE LET n == Cardinality(DOMAIN providers[chain_id])
             next_index == (GetOr(index, chain_id, 0) + 1) % n
         IN  Insert(index, chain_id, next_index)

\* mutant of LoopBound: the loop gives up one endpoint early
LoopBound_Short(chain_id) == Cardinality(DOMAIN providers[chain_id]) - 1

\* the range of `for _ in 0..providers.len()`
LoopBound(chain_id) == Cardinality(DOMAIN providers[chain_id])

\* call: op is the request in flight, iter the loop counter, ret what the
\* call returned ("pending" until it returns).  History: start (the rotation
\* index at entry), tried (the endpoints op was invoked on, in order), failed
\* (the endpoints that answered Err), answered (the endpoint whose Ok was
\* returned).
NoCall ==
    [op |-> "none", chain_id |-> 0, iter |-> 0, ret |-> "pending",
     start |-> 0, tried |-> <<>>, failed |-> {}, answered |-> None]

\* call_with_fallback up to its first await: the lookup of the provider list,
\* whose failure is returned at once (`.ok_or_else(..)?`)
CallBegin(index, op, chain_id) ==
    IF chain_id \notin DOMAIN providers
    THEN [NoCall EXCEPT !.op = op, !.chain_id = chain_id,
                        !.ret = "Err(no providers configured)",
                        !.start = GetOr(index, chain_id, 0)]
    ELSE [NoCall EXCEPT !.op = op, !.chain_id = chain_id,
                        !.start = GetOr(index, chain_id, 0)]

\* mutant of CallStep: the index moves on after a success as well
CallStep_RoundRobin(index, cl, ok) ==
    LET p == get_provider(index, cl.chain_id)
        ret == IF cl.iter + 1 >= LoopBound(cl.chain_id)
               THEN "AllProvidersFailed" ELSE "pending"
    IN  IF p = None
        THEN [index |-> index,
              call |-> [cl EXCEPT !.iter = @ + 1, !.ret = ret],
              ret |-> ret]
        ELSE IF ok
        THEN [index |-> rotate_provider(index, cl.chain_id),
              call |-> [cl EXCEPT !.tried = Append(@, p), !.answered = p,
                                  !.ret = "Ok"],
              ret |-> "Ok"]
        ELSE [index |-> rotate_provider(index, cl.chain_id),
              call |-> [cl EXCEPT !.iter = @ + 1, !.tried = Append(@, p),
                                  !.failed = @ \cup {p}, !.ret = ret],
              ret |-> ret]

\* One iteration of the loop of call_with_fallback, the endpoint answering
\* ok (TRUE) or failing (FALSE).  ret is "Ok", "AllProvidersFailed" or
\* "pending" (the loop goes on to its next await).
CallStep(index, cl, ok) ==
    LET p == get_provider(index, cl.chain_id)
        ret == IF cl.iter + 1 >= LoopBound(cl.chain_id)
               THEN "AllProvidersFailed" ELSE "pending"
    IN  IF p = None
        THEN [index |-> index,
              call |-> [cl EXCEPT !.iter = @ + 1, !.ret = ret],
              ret |-> ret]
        ELSE IF ok
        THEN [index |-> index,
              call |-> [cl EXCEPT !.tried = Append(@, p), !.answered = p,
                                  !.ret = "Ok"],
              ret |-> "Ok"]
        ELSE [index |-> rotate_provider(index, cl.chain_id),
              call |-> [cl EXCEPT !.iter = @ + 1, !.tried = Append(@, p),
                                  !.failed = @ \cup {p}, !.ret = ret],
              ret |-> ret]

\* The Endpoint Rotator on its own: rotate_provider and call_with_fallback
\* are public, so a caller may invoke them in any order for any chain id; a
\* call holds `&mut self` until it returns, and `call` keeps the record of
\* the latest one.

\* a caller invokes rotate_provider(chain_id)
RotateProvider ==
    /\ call.op = "none" \/ call.ret # "pending"
    /\ \E chain_id \in ChainIds :
          current_provider_index'
             = rotate_provider(current_provider_index, chain_id)
    /\ UNCHANGED <<apiVars, market_states, guardVars, call, syncVars,
                   user_positions, ledgerVars, emVars>>

\* a caller invokes call_with_fallback(chain_id, op): up to the first await
RotatorCallStart ==
    /\ call.op = "none" \/ call.ret # "pending"
    /\ \E chain_id \in ChainIds :
          call' = CallBegin(current_provider_index, "op", chain_id)
    /\ UNCHANGED <<apiVars, market_states, guardVars, current_provider_index,
                   syncVars, user_positions, ledgerVars, emVars>>

\* the endpoint the call is suspended on answers (ok) or fails
RotatorCallAnswer(ok) ==
    /\ call.op # "none" /\ call.ret = "pending"
    /\ LET r == CallStep(current_provider_index, call, ok)
       IN  /\ current_provider_index' = r.index
           /\ call' = r.call
    /\ UNCHANGED <<apiVars, market_states, guardVars, syncVars,
                   user_positions, ledgerVars, emVars>>

NextRotator ==
    \/ RotateProvider
    \/ RotatorCallStart
    \/ RotatorCallAnswer(TRUE)
    \/ RotatorCallAnswer(FALSE)

----------------------------------------------------------------------------
\* chain_fusion_manager.rs: the Chain Sync Engine.

Max(a, b) == IF a >= b THEN a ELSE b

\* u64::saturating_sub
saturating_sub(a, b) == IF a >= b THEN a - b ELSE 0

\* mutant of safe_to_block: the confirmation depth is not subtracted
safe_to_block_NoMargin(chain_id, latest_block) == latest_block

\* get_safe_to_block, after the latest block number arrived
safe_to_block(chain_id, latest_block) ==
    saturating_sub(latest_block, chain_configs[chain_id].confirmation_blocks)

\* what an endpoint of the chain may report as the latest block number
LatestBlocks(chain_id) ==
    {0} \cup ((chain_configs[chain_id].confirmation_blocks - MaxBehind)
                ..(chain_configs[chain_id].confirmation_blocks + MaxAhead))

\* mutant of NoNewBlocks: the early return is missing
NoNewBlocks_Never(from_block, to_block) == FALSE

\* mutant of NoNewBlocks: `>` for `>=`
NoNewBlocks_Strict(from_block, to_block) == from_block > to_block

\* sync_chain_events: `if *from_block >= to_block { return Ok(()) }`
NoNewBlocks(from_block, to_block) == from_block >= to_block

\* f64 values of health_factor: a ratio of two integers, or a special value
Ratio(num, den) == [kind |-> "finite", num |-> num, den |-> den]
F64_INFINITY == [kind |-> "INFINITY", num |-> 1, den |-> 0]
F64_MAX == [kind |-> "MAX", num |-> 1, den |-> 0]

\* the UserPosition of or_insert_with in process_mint_event and in job.rs;
\* the balance vectors stay empty and are left out
NewPosition(user_address, chain_id) ==
    [user_address |-> user_address, chain_id |-> chain_id,
     health_factor |-> Ratio(1, 1),
     total_collateral_value_usd |-> 0, total_borrow_value_usd |-> 0]

\* process_mint_event: the new user_positions
process_mint_event(positions, chain_id, log) ==
    IF Len(log.topics) < 2 THEN positions
    ELSE LET user_address == AddressOfWord(log.topics[2])
             key == <<user_address, chain_id>>
         IN  IF key \in DOMAIN positions THEN positions
             ELSE Insert(positions, key, NewPosition(user_address, chain_id))

\* process_single_event: [result, positions]; the handlers of the other four
\* kinds are empty and return Ok(())
process_single_event(positions, chain_id, log) ==
    IF Len(log.topics) = 0
    THEN [result |-> "Ok", positions |-> positions]
    ELSE IF log.topics[1] = MINT_EVENT_SIGNATURE
    THEN [result |-> "Ok",
          positions |-> process_mint_event(positions, chain_id, log)]
    ELSE [result |-> "Ok", positions |-> positions]

\* sync: pc is the position of sync_chain_events; to_block is <<>> until
\* get_safe_to_block returned; logs is what process_events still has to
\* iterate.  History: cursor0 (the cursor at entry), get_logs_calls
\* (invocations of the log-fetch op), window (the Vec<Log> fetched), attempted
\* (the logs handed to process_single_event, in order), failed_in (the request
\* whose call_with_fallback failed), latest_block (what the endpoint answered
\* to get_block_number), block_number_from (the endpoint that answered it).
IdleSync ==
    [pc |-> "idle", chain_id |-> 0, from_block |-> 0, to_block |-> <<>>,
     logs |-> <<>>, result |-> None, cursor0 |-> <<>>, get_logs_calls |-> 0,
     window |-> <<>>, attempted |-> <<>>, failed_in |-> None,
     latest_block |-> <<>>, block_number_from |-> None]

\* all: the sync_all_chains in progress; pending are the chain ids its loop
\* has not reached.  History: visits (calls of sync_chain_events per chain),
\* failed (chains whose sync returned Err), advanced (chains whose cursor the
\* call moved).
IdleAll ==
    [pc |-> "idle", pending |-> {}, result |-> None,
     visits |-> [c \in DOMAIN chain_configs |-> 0], failed |-> {},
     advanced |-> {}]

\* mutant of SyncBegin: a chain id without a configuration is passed over
SyncBegin_Swallow(chain_id) ==
    IF chain_id \notin DOMAIN chain_configs
    THEN /\ sync' = [IdleSync EXCEPT !.pc = "done", !.chain_id = chain_id,
                        !.result = "Ok",
                        !.cursor0 = Get(last_synced_blocks, chain_id)]
         /\ call' = call
    ELSE /\ sync' = [IdleSync EXCEPT !.pc = "get_block_number",
                        !.chain_id = chain_id,
                        !.from_block = GetOr(last_synced_blocks, chain_id, 0),
                        !.cursor0 = Get(last_synced_blocks, chain_id)]
         /\ call' = CallBegin(current_provider_index, "get_block_number", chain_id)

\* sync_chain_events up to its first await
SyncBegin(chain_id) ==
    IF chain_id \notin DOMAIN chain_configs
    THEN /\ sync' = [IdleSync EXCEPT !.pc = "done", !.chain_id = chain_id,
                        !.result = "Err(not configured)",
                        !.cursor0 = Get(last_synced_blocks, chain_id)]
         /\ call' = call
    ELSE /\ sync' = [IdleSync EXCEPT !.pc = "get_block_number",
                        !.chain_id = chain_id,
                        !.from_block = GetOr(last_synced_blocks, chain_id, 0),
                        !.cursor0 = Get(last_synced_blocks, chain_id)]
         /\ call' = CallBegin(current_provider_index, "get_block_number", chain_id)

\* a caller invokes sync_chain_events(chain_id)
SyncChainStart ==
    /\ sync.pc = "idle" /\ all.pc = "idle"
    /\ \E chain_id \in ChainIds : SyncBegin(chain_id)
    /\ UNCHANGED <<apiVars, market_states, guardVars, current_provider_index, last_synced_blocks, reported, all,
                   user_positions, ledgerVars, emVars>>

\* a caller invokes rpc_manager.call_with_fallback(chain_id, op) for a chain
\* id that sync_chain_events would have refused; the call returns before its
\* first await and `call` keeps what it returned
CallUnconfigured ==
    /\ sync.pc = "idle" /\ all.pc = "idle"
    /\ \E chain_id \in ChainIds \ DOMAIN chain_configs :
          call' = CallBegin(current_provider_index, "op", chain_id)
    /\ UNCHANGED <<apiVars, market_states, guardVars, current_provider_index,
                   syncVars, user_positions, ledgerVars, emVars>>

\* a caller invokes sync_all_chains: chain_ids = chain_configs.keys()
SyncAllStart ==
    /\ sync.pc = "idle" /\ all.pc = "idle"
    /\ all' = [IdleAll EXCEPT !.pc = "running",
                              !.pending = DOMAIN chain_configs]
    /\ UNCHANGED <<apiVars, market_states, guardVars, rpcVars, last_synced_blocks, reported, sync,
                   user_positions, ledgerVars, emVars>>

\* the loop of sync_all_chains takes its next chain id (HashMap order)
SyncAllNext ==
    /\ all.pc = "running" /\ sync.pc = "idle"
    /\ \E chain_id \in all.pending :
          /\ SyncBegin(chain_id)
          /\ all' = [all EXCEPT !.pending = @ \ {chain_id},
                                !.visits[chain_id] = @ + 1]
    /\ UNCHANGED <<apiVars, market_states, guardVars, current_provider_index, last_synced_blocks, reported,
                   user_positions, ledgerVars, emVars>>

\* mutant of OnError: the error of the call is swallowed
OnError_Swallow(request) ==
    [sync EXCEPT !.pc = "done", !.result = "Ok", !.failed_in = request]

\* sync_chain_events: the `?` after get_safe_to_block / fetch_peridot_events,
\* when call_with_fallback returned Err
OnError(request) ==
    [sync EXCEPT !.pc = "done", !.result = "Err(all providers failed)",
                 !.failed_in = request]

\* an endpoint answers eth_blockNumber
BlockNumberOk ==
    /\ sync.pc = "get_block_number"
    /\ \E latest_block \in LatestBlocks(sync.chain_id) :
         LET r == CallStep(current_provider_index, call, TRUE)
             to_block == safe_to_block(sync.chain_id, latest_block)
         IN  /\ r.ret = "Ok"
             /\ current_provider_index' = r.index
             /\ reported' =
                   Insert(reported, sync.chain_id,
                          Max(GetOr(reported, sync.chain_id, 0), latest_block))
             /\ IF NoNewBlocks(sync.from_block, to_block)
                THEN /\ sync' = [sync EXCEPT !.pc = "done", !.result = "Ok",
                                             !.to_block = <<to_block>>,
                                             !.latest_block = <<latest_block>>,
                                             !.block_number_from = r.call.answered]
                     /\ call' = r.call
                ELSE /\ sync' = [sync EXCEPT !.pc = "get_logs",
                                             !.to_block = <<to_block>>,
                                             !.latest_block = <<latest_block>>,
                                             !.block_number_from = r.call.answered]
                     /\ call' = CallBegin(r.index, "get_logs", sync.chain_id)
    /\ UNCHANGED <<apiVars, market_states, guardVars, last_synced_blocks, all, user_positions, ledgerVars, emVars>>

\* an endpoint fails eth_blockNumber
BlockNumberErr ==
    /\ sync.pc = "get_block_number"
    /\ LET r == CallStep(current_provider_index, call, FALSE)
       IN  /\ current_provider_index' = r.index
           /\ call' = r.call
           /\ sync' = IF r.ret = "AllProvidersFailed"
                      THEN OnError("get_block_number") ELSE sync
    /\ UNCHANGED <<apiVars, market_states, guardVars, last_synced_blocks, reported, all, user_positions, ledgerVars, emVars>>

\* an endpoint answers eth_getLogs with the logs of [from_block, to_block]
GetLogsOk ==
    /\ sync.pc = "get_logs"
    /\ \E logs \in Windows(SyncLogs, MaxWindow) :
         LET r == CallStep(current_provider_index, call, TRUE)
         IN  /\ r.ret = "Ok"
             /\ current_provider_index' = r.index
             /\ call' = r.call
             /\ sync' = [sync EXCEPT !.pc = "process_events",
                                     !.logs = FromContract(sync.chain_id, logs),
                                     !.window = FromContract(sync.chain_id, logs),
                                     !.get_logs_calls = @ + 1]
    /\ UNCHANGED <<apiVars, market_states, guardVars, last_synced_blocks, reported, all, user_positions, ledgerVars, emVars>>

\* an endpoint fails eth_getLogs
GetLogsErr ==
    /\ sync.pc = "get_logs"
    /\ LET r == CallStep(current_provider_index, call, FALSE)
       IN  /\ current_provider_index' = r.index
           /\ call' = r.call
           /\ sync' = IF r.ret = "AllProvidersFailed"
                      THEN [OnError("get_logs") EXCEPT
                               !.get_logs_calls = @ + 1]
                      ELSE [sync EXCEPT !.get_logs_calls = @ + 1]
    /\ UNCHANGED <<apiVars, market_states, guardVars, last_synced_blocks, reported, all, user_positions, ledgerVars, emVars>>

\* process_events: `if let Err(e) = ... { println }`: what is left to
\* iterate after a log whose processing returned result
AfterEvent(rest, result) == rest

\* mutant of ProcessEvent: the Vec is consumed from its end
ProcessEvent_LastFirst ==
    /\ sync.pc = "process_events" /\ sync.logs # <<>>
    /\ LET log == sync.logs[Len(sync.logs)]
           r == process_single_event(user_positions, sync.chain_id, log)
       IN  /\ user_positions' = r.positions
           /\ sync' = [sync EXCEPT
                 !.logs = AfterEvent(SubSeq(@, 1, Len(@) - 1), r.result),
                 !.attempted = Append(@, log)]
    /\ UNCHANGED <<apiVars, market_states, guardVars, rpcVars,
                   last_synced_blocks, reported, all, ledgerVars, emVars>>

\* process_events: one iteration of `for log in logs`
ProcessEvent ==
    /\ sync.pc = "process_events" /\ sync.logs # <<>>
    /\ LET log == Head(sync.logs)
           r == process_single_event(user_positions, sync.chain_id, log)
       IN  /\ user_positions' = r.positions
           /\ sync' = [sync EXCEPT !.logs = AfterEvent(Tail(@), r.result),
                                   !.attempted = Append(@, log)]
    /\ UNCHANGED <<apiVars, market_states, guardVars, rpcVars, last_synced_blocks, reported, all, ledgerVars, emVars>>

\* mutant of ProcessDone: the cursor is written before the loop is over
ProcessDone_Early ==
    /\ sync.pc = "process_events"
    /\ last_synced_blocks' =
          Insert(last_synced_blocks, sync.chain_id, sync.to_block[1])
    /\ sync' = [sync EXCEPT !.pc = "done", !.result = "Ok"]
    /\ UNCHANGED <<apiVars, market_states, guardVars, rpcVars, reported, all, user_positions, ledgerVars, emVars>>

\* sync_chain_events after process_events: the cursor is written
ProcessDone ==
    /\ sync.pc = "process_events" /\ sync.logs = <<>>
    /\ last_synced_blocks' =
          Insert(last_synced_blocks, sync.chain_id, sync.to_block[1])
    /\ sync' = [sync EXCEPT !.pc = "done", !.result = "Ok"]
    /\ UNCHANGED <<apiVars, market_states, guardVars, rpcVars, reported, all, user_positions, ledgerVars, emVars>>

\* mutant of AfterChain: the error of a chain ends the loop (`?`)
AfterChain_Abort(pending, result) == IF result = "Ok" THEN pending ELSE {}

\* sync_all_chains: `if let Err(e) = ... { println }`: the chain ids left to
\* iterate after a chain whose sync returned result
AfterChain(pending, result) == pending

\* sync_chain_events returns to its caller
SyncReturn ==
    /\ sync.pc = "done"
    /\ sync' = IdleSync
    /\ call' = NoCall
    /\ all' = IF all.pc = "running"
              THEN [all EXCEPT
                      !.pending = AfterChain(@, sync.result),
                      !.failed = IF sync.result = "Ok" THEN @
                                 ELSE @ \cup {sync.chain_id},
                      !.advanced =
                         IF Get(last_synced_blocks, sync.chain_id)
                               # sync.cursor0
                         THEN @ \cup {sync.chain_id} ELSE @]
              ELSE all
    /\ UNCHANGED <<apiVars, market_states, guardVars, current_provider_index, last_synced_blocks, reported,
                   user_positions, ledgerVars, emVars>>

\* sync_all_chains: the loop is over, Ok(()) is returned
SyncAllDone ==
    /\ all.pc = "running" /\ sync.pc = "idle" /\ all.pending = {}
    /\ all' = [all EXCEPT !.pc = "done", !.result = "Ok"]
    /\ UNCHANGED <<apiVars, market_states, guardVars, rpcVars, last_synced_blocks, reported, sync,
                   user_positions, ledgerVars, emVars>>

\* the caller of sync_all_chains has its result
SyncAllReturn ==
    /\ all.pc = "done"
    /\ all' = IdleAll
    /\ UNCHANGED <<apiVars, market_states, guardVars, rpcVars, last_synced_blocks, reported, sync,
                   user_positions, ledgerVars, emVars>>

----------------------------------------------------------------------------
\* state.rs and job.rs: the Dedup Ledger and the job that consumes it.

\* lib.rs sol!: PeridotEvents::<Event>::SIGNATURE_HASH, the keccak256 of the
\* event signature.  Those of Mint is the literal of chain_fusion_manager.rs;
\* the other four differ from its literals.
Mint_SIGNATURE_HASH == MINT_EVENT_SIGNATURE
Redeem_SIGNATURE_HASH ==
    "0xe5b754fb1abb7f01b499791d0b820ae3b6af3424ac1c59768edb53f4ec31a929"
Borrow_SIGNATURE_HASH ==
    "0x13ed6866d4e1ee6da46f845c46d7e54120883d75c5ea9a2dacc1c4ca8984ab80"
RepayBorrow_SIGNATURE_HASH ==
    "0x1a2a22cb034d26d1854bdc6666a5b91fe25efbbb5dcad3b0355478d6f5c362a1"
LiquidateBorrow_SIGNATURE_HASH ==
    "0x298637f684da70674f26509b10f07ec2fbc77a335ab1e7d6215a4b2484d8bb52"

\* the logs handed to the ledger: one per handler of job.rs that touches the
\* store, one of an unknown kind, one without topics
JobLogs ==
    { MkLog("0x01", 0, BnbContract, <<Mint_SIGNATURE_HASH, UserWordA>>),
      MkLog("0x01", 1, BnbContract, <<Borrow_SIGNATURE_HASH, UserWordA>>),
      MkLog("0x02", 0, BnbContract,
            <<RepayBorrow_SIGNATURE_HASH, UserWordB, UserWordA>>),
      MkLog("0x03", 0, MonadContract,
            <<TransferSignature, UserWordA, UserWordB>>),
      MkLog("0x04", 0, MonadContract, <<>>) }

\* IntoLogSource::source: LogSource {transaction_hash, log_index}
source(log) == <<log.transaction_hash, log.log_index>>

LogSources == { source(l) : l \in JobLogs }

\* mutant of record_log_to_process: the assert on logs_to_process is missing
record_log_to_process_NoInFlightCheck(ltp, pl, log_entry) ==
    IF source(log_entry) \in DOMAIN pl
    THEN [panic |-> TRUE, logs_to_process |-> ltp, processed_logs |-> pl]
    ELSE [panic |-> FALSE,
          logs_to_process |-> Insert(ltp, source(log_entry), log_entry),
          processed_logs |-> pl]

\* mutant of record_log_to_process: the assert on processed_logs is missing
record_log_to_process_NoProcessedCheck(ltp, pl, log_entry) ==
    IF source(log_entry) \in DOMAIN ltp
    THEN [panic |-> TRUE, logs_to_process |-> ltp, processed_logs |-> pl]
    ELSE [panic |-> FALSE,
          logs_to_process |-> Insert(ltp, source(log_entry), log_entry),
          processed_logs |-> pl]

\* State::record_log_to_process on the maps ltp (logs_to_process) and pl
\* (processed_logs); panic is a failed assert!, which changes nothing
record_log_to_process(ltp, pl, log_entry) ==
    LET event_source == source(log_entry)
    IN  IF event_source \in DOMAIN ltp
        THEN [panic |-> TRUE, logs_to_process |-> ltp, processed_logs |-> pl]
        ELSE IF event_source \in DOMAIN pl
        THEN [panic |-> TRUE, logs_to_process |-> ltp, processed_logs |-> pl]
        ELSE [panic |-> FALSE,
              logs_to_process |-> Insert(ltp, event_source, log_entry),
              processed_logs |-> pl]

\* mutant of record_processed_log: a source that is not in flight is marked
\* processed all the same (no panic on None, the insert overwrites)
record_processed_log_NoPanic(ltp, pl, log_source, log) ==
    [panic |-> FALSE,
     logs_to_process |-> Remove(ltp, log_source),
     processed_logs |-> Insert(pl, log_source, log)]

\* mutant of record_processed_log: the processed map is started afresh with
\* the entry moved
record_processed_log_KeepOne(ltp, pl, log_source, log) ==
    IF log_source \notin DOMAIN ltp
    THEN [panic |-> TRUE, logs_to_process |-> ltp, processed_logs |-> pl]
    ELSE IF log_source \in DOMAIN pl
    THEN [panic |-> TRUE, logs_to_process |-> ltp, processed_logs |-> pl]
    ELSE [panic |-> FALSE,
          logs_to_process |-> Remove(ltp, log_source),
          processed_logs |-> Insert(EmptyMap, log_source, ltp[log_source])]

\* State::record_processed_log; log is the entry the caller holds, used only
\* by the mutant.  A panic aborts the canister message: the state is as at
\* its start.
record_processed_log(ltp, pl, log_source, log) ==
    IF log_source \notin DOMAIN ltp
    THEN [panic |-> TRUE, logs_to_process |-> ltp, processed_logs |-> pl]
    ELSE IF log_source \in DOMAIN pl
    THEN [panic |-> TRUE, logs_to_process |-> ltp, processed_logs |-> pl]
    ELSE [panic |-> FALSE,
          logs_to_process |-> Remove(ltp, log_source),
          processed_logs |-> Insert(pl, log_source, ltp[log_source])]

\* job.rs get_chain_id_from_log: the match compares Address::to_string(), the
\* mixed-case EIP-55 form, with two lower-case literals
get_chain_id_from_log(log) ==
    CASE log.address = "0xe797a0001a3bc1b2760a24c3d7fdd172906bccd6"
            -> BnbChainId
      [] log.address = "0xa41d586530bc7bc872095950ae03a780d5114445"
            -> JobDefaultChainId
      [] OTHER -> JobDefaultChainId

\* job.rs calculate_health_factor
calculate_health_factor(position) ==
    [position EXCEPT !.health_factor =
        IF position.total_borrow_value_usd > 0
        THEN Ratio(position.total_collateral_value_usd,
                   position.total_borrow_value_usd)
        ELSE F64_INFINITY]

\* job.rs: format!("{:?}", topic), the whole 32-byte word
DebugOfWord(w) == w

\* process_mint_event_simple: the new user_positions
process_mint_event_simple(positions, log) ==
    IF Len(log.topics) >= 2
    THEN LET user_address == DebugOfWord(log.topics[2])
             key == <<user_address, get_chain_id_from_log(log)>>
         IN  IF key \in DOMAIN positions THEN positions
             ELSE Insert(positions, key, NewPosition(key[1], key[2]))
    ELSE positions

\* process_redeem_event_simple: only updated_at of an existing position
process_redeem_event_simple(positions, log) == positions

\* process_borrow_event_simple
process_borrow_event_simple(positions, log) ==
    IF Len(log.topics) >= 2
    THEN LET user_address == DebugOfWord(log.topics[2])
             key == <<user_address, get_chain_id_from_log(log)>>
             position == IF key \in DOMAIN positions THEN positions[key]
                         ELSE NewPosition(key[1], key[2])
         IN  Insert(positions, key, calculate_health_factor(position))
    ELSE positions

\* mutant of process_repay_event_simple: the position of the borrower is
\* removed from the store
process_repay_event_simple_Close(positions, log) ==
    IF Len(log.topics) >= 3
    THEN LET user_address == DebugOfWord(log.topics[3])
             key == <<user_address, get_chain_id_from_log(log)>>
         IN  IF key \in DOMAIN positions
             THEN Remove(positions, key)
             ELSE positions
    ELSE positions

\* process_repay_event_simple and process_liquidation_event_simple: the
\* borrower is the third topic; only an existing position is touched
process_repay_event_simple(positions, log) ==
    IF Len(log.topics) >= 3
    THEN LET user_address == DebugOfWord(log.topics[3])
             key == <<user_address, get_chain_id_from_log(log)>>
         IN  IF key \in DOMAIN positions
             THEN Insert(positions, key,
                         calculate_health_factor(positions[key]))
             ELSE positions
    ELSE positions

process_liquidation_event_simple(positions, log) ==
    process_repay_event_simple(positions, log)

\* job, after record_processed_log: the dispatch on topics[0]
job_dispatch(positions, log) ==
    IF Len(log.topics) = 0 THEN positions
    ELSE LET event_signature == log.topics[1]
         IN  CASE event_signature = Mint_SIGNATURE_HASH
                    -> process_mint_event_simple(positions, log)
               [] event_signature = Redeem_SIGNATURE_HASH
                    -> process_redeem_event_simple(positions, log)
               [] event_signature = Borrow_SIGNATURE_HASH
                    -> process_borrow_event_simple(positions, log)
               [] event_signature = RepayBorrow_SIGNATURE_HASH
                    -> process_repay_event_simple(positions, log)
               [] event_signature = LiquidateBorrow_SIGNATURE_HASH
                    -> process_liquidation_event_simple(positions, log)
               [] OTHER -> positions

\* ledger (history): recorded = the sources record_log_to_process accepted,
\* applied[s] = invocations of job for s that reached the dispatch, last =
\* the latest operation and whether it panicked
InitLedger ==
    [recorded |-> {},
     applied |-> [src \in LogSources |-> 0],
     last |-> [op |-> "none", source |-> <<"", 0>>, panic |-> FALSE]]

\* a caller invokes mutate_state(|s| s.record_log_to_process(&log))
RecordLogToProcess ==
    \E log \in JobLogs :
       LET r == record_log_to_process(logs_to_process, processed_logs, log)
       IN  /\ logs_to_process' = r.logs_to_process
           /\ processed_logs' = r.processed_logs
           /\ ledger' = [ledger EXCEPT
                 !.recorded = IF r.panic THEN @ ELSE @ \cup {source(log)},
                 !.last = [op |-> "record_log_to_process",
                           source |-> source(log), panic |-> r.panic]]
           /\ UNCHANGED <<apiVars, market_states, guardVars, rpcVars, syncVars, user_positions, emVars>>

\* mutant of Job: the failure of record_processed_log does not stop the job
Job_Unchecked ==
    \E log \in JobLogs :
       LET log_source == source(log)
           r == record_processed_log(logs_to_process, processed_logs,
                                     log_source, log)
       IN  /\ logs_to_process' = r.logs_to_process
           /\ processed_logs' = r.processed_logs
           /\ user_positions' = job_dispatch(user_positions, log)
           /\ ledger' = [ledger EXCEPT
                 !.applied[log_source] = @ + 1,
                 !.last = [op |-> "job", source |-> log_source,
                           panic |-> r.panic]]
           /\ UNCHANGED <<apiVars, market_states, guardVars, rpcVars, syncVars, emVars>>

\* a caller invokes job(source(log), log)
Job ==
    \E log \in JobLogs :
       LET log_source == source(log)
           r == record_processed_log(logs_to_process, processed_logs,
                                     log_source, log)
       IN  /\ logs_to_process' = r.logs_to_process
           /\ processed_logs' = r.processed_logs
           /\ user_positions' = IF r.panic THEN user_positions
                                ELSE job_dispatch(user_positions, log)
           /\ ledger' = [ledger EXCEPT
                 !.applied[log_source] = IF r.panic THEN @ ELSE @ + 1,
                 !.last = [op |-> "job", source |-> log_source,
                           panic |-> r.panic]]
           /\ UNCHANGED <<apiVars, market_states, guardVars, rpcVars, syncVars, emVars>>

NextLedger == RecordLogToProcess \/ Job

----------------------------------------------------------------------------
\* event_monitor.rs: the second sync engine, on its own stores.

\* the logs an endpoint returns to event_monitor.rs: two kinds that change the
\* stores and two that process_event_log rejects
EmLogs ==
    { MkLog("0x01", 0, "", <<MINT_EVENT_SIGNATURE, UserWordA>>),
      MkLog("0x01", 1, "", <<BORROW_EVENT_SIGNATURE, UserWordA>>),
      MkLog("0x03", 0, "", <<TransferSignature, UserWordA, UserWordB>>),
      MkLog("0x04", 0, "", <<>>) }

\* get_chain_config: the chain ids with a contract list (one contract each)
EmChains == {MonadChainId, BnbChainId}

\* f64::max(x - d, 0.0)
SubFloor(x, d) == IF x - d > 0 THEN x - d ELSE 0

\* update_user_position_from_event: the new USER_POSITIONS.  The key is
\* format!("{}:{}", user_address, chain_id); amounts are USD.
update_user_position_from_event(positions, event) ==
    LET key == <<event.user_address, event.chain_id>>
        old == IF key \in DOMAIN positions THEN positions[key]
               ELSE [user_address |-> event.user_address,
                     chain_id |-> event.chain_id,
                     health_factor |-> Ratio(2, 1),
                     total_collateral_value_usd |-> 0,
                     total_borrow_value_usd |-> 0]
        c == old.total_collateral_value_usd
        b == old.total_borrow_value_usd
        c1 == CASE event.event_type = "Mint" -> c + 1000
                [] event.event_type = "Redeem" -> SubFloor(c, 1000)
                [] event.event_type = "LiquidateBorrow" -> SubFloor(c, 300)
                [] OTHER -> c
        b1 == CASE event.event_type = "Borrow" -> b + 500
                [] event.event_type = "RepayBorrow" -> SubFloor(b, 500)
                [] event.event_type = "LiquidateBorrow" -> SubFloor(b, 250)
                [] OTHER -> b
    IN  Insert(positions, key,
               [old EXCEPT !.total_collateral_value_usd = c1,
                           !.total_borrow_value_usd = b1,
                           !.health_factor =
                               IF b1 > 0 THEN Ratio(c1 * 3, b1 * 4)
                                         ELSE F64_MAX])

\* update_market_state_from_event: the new MARKET_STATES.  The key is
\* format!("{}:{}", contract_address, chain_id); amounts are in units of
\* 10^20 wei.  The fields no event changes are left out.
update_market_state_from_event(markets, event) ==
    LET key == <<event.contract_address, event.chain_id>>
        old == IF key \in DOMAIN markets THEN markets[key]
               ELSE [market_address |-> event.contract_address,
                     chain_id |-> event.chain_id,
                     total_supply |-> 10000, total_borrows |-> 5000]
        s0 == old.total_supply
        b0 == old.total_borrows
    IN  Insert(markets, key,
          [old EXCEPT
             !.total_supply =
                 CASE event.event_type = "Mint" -> s0 + 10
                   [] event.event_type = "Redeem" ->
                          IF s0 > 10 THEN s0 - 10 ELSE s0
                   [] OTHER -> s0,
             !.total_borrows =
                 CASE event.event_type = "Borrow" -> b0 + 5
                   [] event.event_type = "RepayBorrow" ->
                          IF b0 > 5 THEN b0 - 5 ELSE b0
                   [] OTHER -> b0])

\* process_event_log: [result, positions, markets]
process_event_log(positions, markets, log, chain_id) ==
    IF Len(log.topics) = 0
    THEN [result |-> "Err(no topics)", positions |-> positions,
          markets |-> markets]
    ELSE LET event_signature == log.topics[1]
             event_type ==
                CASE event_signature = MINT_EVENT_SIGNATURE -> "Mint"
                  [] event_signature = REDEEM_EVENT_SIGNATURE -> "Redeem"
                  [] event_signature = BORROW_EVENT_SIGNATURE -> "Borrow"
                  [] event_signature = REPAY_BORROW_EVENT_SIGNATURE
                        -> "RepayBorrow"
                  [] event_signature = LIQUIDATE_BORROW_EVENT_SIGNATURE
                        -> "LiquidateBorrow"
                  [] OTHER -> None
             event ==
                [event_type |-> event_type, chain_id |-> chain_id,
                 contract_address |-> log.address,
                 user_address |->
                    IF Len(log.topics) > 1 THEN AddressOfWord(log.topics[2])
                    ELSE "0x0000000000000000000000000000000000000000"]
         IN  IF event_type = None
             THEN [result |-> "Err(unknown signature)",
                   positions |-> positions, markets |-> markets]
             ELSE [result |-> "Ok",
                   positions |->
                      update_user_position_from_event(positions, event),
                   markets |->
                      update_market_state_from_event(markets, event)]

\* fetch_contract_events: `process_event_log(log, chain_id).await?`: what is
\* left to iterate after a log whose processing returned result
EmAfterEvent(rest, result) == IF result = "Ok" THEN rest ELSE <<>>

\* em: pc is the position of event_monitor's sync_chain_events, logs what the
\* loop of fetch_contract_events still has to iterate.  History: window (the
\* logs fetched), attempted (the logs handed to process_event_log), fetch (the
\* result of fetch_contract_events), events (logs fetched so far), last
\* (chain and window of the latest sync that returned), replay
\* (this sync delivers the chain and window of last again), once (the stores
\* when the replay began).
IdleEm ==
    [pc |-> "idle", chain_id |-> 0, logs |-> <<>>, result |-> None,
     window |-> <<>>, attempted |-> <<>>, fetch |-> None,
     events |-> 0, last |-> <<>>, replay |-> FALSE,
     once |-> <<>>]

\* a caller invokes event_monitor's sync_chain_events(chain_id): up to the
\* await of the log fetch
EmSyncStart ==
    /\ em.pc = "idle"
    /\ \E chain_id \in ChainIds :
          em' = IF chain_id \in EmChains
                THEN [em EXCEPT !.pc = "get_logs", !.chain_id = chain_id]
                ELSE [em EXCEPT !.pc = "done", !.chain_id = chain_id,
                                !.result = "Err(unsupported chain)"]
    /\ UNCHANGED <<apiVars, market_states, guardVars, rpcVars, syncVars, user_positions, ledgerVars,
                   em_positions, em_markets>>

\* fetch_contract_events: `let logs = simulate_get_logs(..).await?`.  The
\* function is the placeholder of the eth_getLogs request built just above it
\* and returns an empty Vec; the batch is drawn here from the answers such a
\* request can get, so that the loop below it has logs to iterate.  from_block
\* is the same at every sync (get_last_synced_block is a constant table and
\* update_last_synced_block only prints), so any window can be answered again.
EmGetLogs ==
    /\ em.pc = "get_logs"
    /\ \E w \in Windows(EmLogs, MaxWindow) :
          LET logs == FromContract(em.chain_id, w)
              again == em.last = <<em.chain_id, logs>>
          IN  /\ em.events + Len(logs) <= MaxEmEvents
              /\ em' = [em EXCEPT
                          !.pc = "process", !.logs = logs, !.window = logs,
                          !.events = @ + Len(logs),
                          !.replay = again,
                          !.once = IF again
                                   THEN <<em_positions, em_markets>>
                                   ELSE <<>>]
    /\ UNCHANGED <<apiVars, market_states, guardVars, rpcVars, syncVars, user_positions, ledgerVars,
                   em_positions, em_markets>>

\* fetch_contract_events: one iteration of `for log in logs`
EmProcessEvent ==
    /\ em.pc = "process" /\ em.logs # <<>>
    /\ LET log == Head(em.logs)
           r == process_event_log(em_positions, em_markets, log, em.chain_id)
       IN  /\ em_positions' = r.positions
           /\ em_markets' = r.markets
           /\ em' = [em EXCEPT
                       !.logs = EmAfterEvent(Tail(@), r.result),
                       !.attempted = Append(@, log),
                       !.fetch = IF r.result = "Ok" THEN @ ELSE r.result]
    /\ UNCHANGED <<apiVars, market_states, guardVars, rpcVars, syncVars, user_positions, ledgerVars>>

\* fetch_contract_events returns; sync_chain_events prints its error, calls
\* update_last_synced_block (a println) and returns Ok(())
EmFinish ==
    /\ em.pc = "process" /\ em.logs = <<>>
    /\ em' = [em EXCEPT !.pc = "done", !.result = "Ok",
                        !.fetch = IF @ = None THEN "Ok" ELSE @]
    /\ UNCHANGED <<apiVars, market_states, guardVars, rpcVars, syncVars, user_positions, ledgerVars,
                   em_positions, em_markets>>

\* the caller has the result
EmReturn ==
    /\ em.pc = "done"
    /\ em' = [IdleEm EXCEPT
                !.events = em.events,
                !.last = IF em.result = "Ok"
                         THEN <<em.chain_id, em.window>> ELSE em.last]
    /\ UNCHANGED <<apiVars, market_states, guardVars, rpcVars, syncVars, user_positions, ledgerVars,
                   em_positions, em_markets>>

NextMonitor ==
    \/ EmSyncStart
    \/ EmGetLogs
    \/ EmProcessEvent
    \/ EmFinish
    \/ EmReturn

----------------------------------------------------------------------------
\* guard.rs: the Task Guard, and the timer-driven tasks that hold it.

\* state.rs: enum TaskType
TaskType == {"ProcessLogs", "ScrapeLogs"}

\* mutant of TimerGuard_new: the membership test is missing
TimerGuard_new_NoCheck(active, task_type) ==
    [result |-> "Ok", active_tasks |-> active \cup {task_type}]

\* mutant of TimerGuard_new: the failing acquire runs the release
TimerGuard_new_FailReleases(active, task_type) ==
    IF task_type \in active
    THEN [result |-> "Err(already running)",
          active_tasks |-> active \ {task_type}]
    ELSE [result |-> "Ok", active_tasks |-> active \cup {task_type}]

\* mutant of TimerGuard_new: one lock for all task types
TimerGuard_new_Exclusive(active, task_type) ==
    IF active # {}
    THEN [result |-> "Err(already running)", active_tasks |-> active]
    ELSE [result |-> "Ok", active_tasks |-> active \cup {task_type}]

\* TimerGuard::new: [result, active_tasks]; Ok stands for Ok(TimerGuard)
TimerGuard_new(active, task_type) ==
    IF task_type \in active
    THEN [result |-> "Err(already running)", active_tasks |-> active]
    ELSE [result |-> "Ok", active_tasks |-> active \cup {task_type}]

\* mutant of TimerGuard_drop: nothing is removed
TimerGuard_drop_Leak(active, task_type) == active

\* Drop for TimerGuard: the new active_tasks
TimerGuard_drop(active, task_type) == active \ {task_type}

\* the invocations of guarded tasks that can be in progress
Invocations == 1..MaxInvocations

\* the suspension points of a guarded sync tick: the fetch of the latest
\* block number, then the fetch of the logs
TickAwaits == <<"get_block_number", "get_logs">>

\* timer[i]: pc is "idle", an element of TickAwaits (suspended there) or
\* "returned"; guard is TRUE while the invocation owns a TimerGuard.  History:
\* acquire (what TimerGuard::new returned), result (how the scope ended),
\* held (active_tasks when TimerGuard::new was called).
IdleTimer ==
    [pc |-> "idle", task_type |-> None, guard |-> FALSE, acquire |-> None,
     result |-> None, held |-> {}]

\* a timer fires and starts invocation i of task_type: the code up to the
\* first await, which begins with `let _guard = TimerGuard::new(..)?`
TimerFire(i) ==
    /\ timer[i].pc = "idle"
    /\ \E task_type \in TaskType :
          LET r == TimerGuard_new(active_tasks, task_type)
          IN  /\ active_tasks' = r.active_tasks
              /\ timer' = [timer EXCEPT ![i] =
                    IF r.result = "Ok"
                    THEN [IdleTimer EXCEPT !.pc = TickAwaits[1],
                             !.task_type = task_type, !.guard = TRUE,
                             !.acquire = r.result, !.held = active_tasks]
                    ELSE [IdleTimer EXCEPT !.pc = "returned",
                             !.task_type = task_type,
                             !.acquire = r.result, !.result = r.result,
                             !.held = active_tasks]]
    /\ UNCHANGED <<apiVars, market_states, rpcVars, syncVars, user_positions, ledgerVars, emVars>>

\* the RPC invocation i is suspended on answers: the task goes on to its next
\* await, or its scope ends with success and the guard is dropped
TimerRpcOk(i) ==
    /\ timer[i].pc \in {TickAwaits[k] : k \in 1..Len(TickAwaits)}
    /\ IF timer[i].pc = TickAwaits[Len(TickAwaits)]
       THEN /\ active_tasks' =
                  TimerGuard_drop(active_tasks, timer[i].task_type)
            /\ timer' = [timer EXCEPT ![i].pc = "returned",
                                      ![i].guard = FALSE,
                                      ![i].result = "Ok"]
       ELSE /\ active_tasks' = active_tasks
            /\ timer' = [timer EXCEPT ![i].pc = TickAwaits[2]]
    /\ UNCHANGED <<apiVars, market_states, rpcVars, syncVars, user_positions, ledgerVars, emVars>>

\* the RPC invocation i is suspended on fails: the scope ends with the error
\* (`?`) and the guard is dropped
TimerRpcErr(i) ==
    /\ timer[i].pc \in {TickAwaits[k] : k \in 1..Len(TickAwaits)}
    /\ active_tasks' = TimerGuard_drop(active_tasks, timer[i].task_type)
    /\ timer' = [timer EXCEPT ![i].pc = "returned", ![i].guard = FALSE,
                              ![i].result = "Err(rpc)"]
    /\ UNCHANGED <<apiVars, market_states, rpcVars, syncVars, user_positions, ledgerVars, emVars>>

\* invocation i is over
TimerReturn(i) ==
    /\ timer[i].pc = "returned"
    /\ timer' = [timer EXCEPT ![i] = IdleTimer]
    /\ UNCHANGED <<apiVars, market_states, rpcVars, syncVars, user_positions, ledgerVars, emVars,
                   active_tasks>>

NextGuard ==
    \E i \in Invocations :
        \/ TimerFire(i)
        \/ TimerRpcOk(i)
        \/ TimerRpcErr(i)
        \/ TimerReturn(i)

----------------------------------------------------------------------------
\* enhanced_api.rs: the Risk Aggregator, a read of the stores.

\* f64::NAN as a health factor
F64_NAN == [kind |-> "NaN", num |-> 0, den |-> 0]

\* An f64 amount of a stored position (total_collateral_value_usd,
\* total_borrow_value_usd) is a number of 100 USD, or NaN, which is written
\* as the integer below every amount.
F64_NAN_AMOUNT == -1

\* f64::is_nan on an amount
is_nan(x) == x = F64_NAN_AMOUNT

\* f64 `+` on amounts
f64_add(x, y) == IF is_nan(x) \/ is_nan(y) THEN F64_NAN_AMOUNT ELSE x + y

\* f64 `>` on amounts: false when an operand is NaN
f64_gt(x, y) == ~is_nan(x) /\ ~is_nan(y) /\ x > y

\* f64 `/` of an amount by a positive amount
f64_div(x, y) == IF is_nan(x) THEN F64_NAN ELSE Ratio(x, y)

\* f64 `<` on health factors: false when an operand is NaN; every ratio is
\* below f64::MAX, which is below f64::INFINITY
f64_lt(a, b) ==
    CASE a.kind = "finite" /\ b.kind = "finite"
            -> a.num * b.den < b.num * a.den
      [] a.kind = "finite" /\ b.kind \in {"MAX", "INFINITY"} -> TRUE
      [] a.kind = "MAX" /\ b.kind = "INFINITY" -> TRUE
      [] OTHER -> FALSE

\* f64::partial_cmp: None when an operand is NaN
partial_cmp(a, b) ==
    IF a.kind = "NaN" \/ b.kind = "NaN" THEN None
    ELSE IF f64_lt(a, b) THEN "Less"
    ELSE IF f64_lt(b, a) THEN "Greater"
    ELSE "Equal"

\* (health_factor - 1.0) * total_borrow of calculate_liquidation_risk, the
\* amount being in 100 USD: f64::MAX - 1.0 is f64::MAX, f64::MAX times an
\* amount above 0 overflows to INFINITY, INFINITY * 0.0 is NaN
buffer_amount(health_factor, total_borrow) ==
    CASE health_factor.kind = "NaN" \/ is_nan(total_borrow) -> F64_NAN
      [] health_factor.kind = "finite"
            -> Ratio((health_factor.num - health_factor.den) * total_borrow,
                     health_factor.den)
      [] health_factor.kind = "MAX"
            -> IF total_borrow = 0 THEN Ratio(0, 1) ELSE F64_INFINITY
      [] OTHER -> IF total_borrow = 0 THEN F64_NAN ELSE F64_INFINITY

\* mutant of calculate_liquidation_risk: the bound of High is inclusive
calculate_liquidation_risk_Inclusive(health_factor, total_borrow) ==
    LET level ==
            IF f64_lt(health_factor, Ratio(1, 1)) THEN "Critical"
            ELSE IF ~f64_lt(Ratio(11, 10), health_factor)
                    /\ health_factor.kind # "NaN" THEN "High"
            ELSE IF f64_lt(health_factor, Ratio(13, 10)) THEN "Medium"
            ELSE "Low"
    IN  [risk_level |-> level,
         liquidation_threshold |-> Ratio(1, 1),
         buffer_amount |-> buffer_amount(health_factor, total_borrow),
         recommended_action |->
            CASE level = "Critical"
                    -> "Immediate repayment or collateral addition required"
              [] level = "High" -> "Add collateral or repay debt soon"
              [] level = "Medium" -> "Monitor position closely"
              [] OTHER -> "Position is healthy"]

\* calculate_liquidation_risk
calculate_liquidation_risk(health_factor, total_borrow) ==
    LET level ==
            IF f64_lt(health_factor, Ratio(1, 1)) THEN "Critical"
            ELSE IF f64_lt(health_factor, Ratio(11, 10)) THEN "High"
            ELSE IF f64_lt(health_factor, Ratio(13, 10)) THEN "Medium"
            ELSE "Low"
    IN  [risk_level |-> level,
         liquidation_threshold |-> Ratio(1, 1),
         buffer_amount |-> buffer_amount(health_factor, total_borrow),
         recommended_action |->
            CASE level = "Critical"
                    -> "Immediate repayment or collateral addition required"
              [] level = "High" -> "Add collateral or repay debt soon"
              [] level = "Medium" -> "Monitor position closely"
              [] OTHER -> "Position is healthy"]

\* the sum of f over the keys ks of the map m (Iterator::sum)
RECURSIVE SumOver(_, _, _)
SumOver(m, ks, f) ==
    IF ks = {} THEN 0
    ELSE LET k == CHOOSE x \in ks : TRUE
         IN  f64_add(m[k][f], SumOver(m, ks \ {k}, f))

\* mutant of get_enhanced_user_position: the filter on the address is missing
get_enhanced_user_position_NoFilter(positions, user_address) ==
    LET mine == DOMAIN positions
        total_collateral == SumOver(positions, mine, "total_collateral_value_usd")
        total_borrow == SumOver(positions, mine, "total_borrow_value_usd")
        aggregate_health_factor ==
            IF f64_gt(total_borrow, 0)
            THEN f64_div(total_collateral, total_borrow) ELSE F64_MAX
    IN  IF mine = {} THEN <<>>
        ELSE << [user_address |-> user_address,
                 total_collateral_usd |-> total_collateral,
                 total_borrow_usd |-> total_borrow,
                 aggregate_health_factor |-> aggregate_health_factor,
                 positions_by_chain |-> {k[2] : k \in mine},
                 liquidation_risk |->
                    calculate_liquidation_risk(aggregate_health_factor,
                                               total_borrow)] >>

\* ChainFusionManager::get_enhanced_user_position: None is <<>>, Some(p) is
\* <<p>>; positions_by_chain is given by its chain ids;
\* arbitrage_opportunities (a mock list) is left out
get_enhanced_user_position(positions, user_address) ==
    LET mine == {k \in DOMAIN positions : k[1] = user_address}
        total_collateral == SumOver(positions, mine, "total_collateral_value_usd")
        total_borrow == SumOver(positions, mine, "total_borrow_value_usd")
        aggregate_health_factor ==
            IF f64_gt(total_borrow, 0)
            THEN f64_div(total_collateral, total_borrow) ELSE F64_MAX
    IN  IF mine = {} THEN <<>>
        ELSE << [user_address |-> user_address,
                 total_collateral_usd |-> total_collateral,
                 total_borrow_usd |-> total_borrow,
                 aggregate_health_factor |-> aggregate_health_factor,
                 positions_by_chain |-> {k[2] : k \in mine},
                 liquidation_risk |->
                    calculate_liquidation_risk(aggregate_health_factor,
                                               total_borrow)] >>

\* mutant of NearLiquidation: `!(h >= 1.2)`, which keeps NaN
NearLiquidation_KeepNaN(health_factor) ==
    health_factor.kind = "NaN" \/ f64_lt(health_factor, Ratio(6, 5))

\* the condition of get_liquidation_opportunities_enhanced on a user:
\* `position.aggregate_health_factor < 1.2`
NearLiquidation(health_factor) ==
    f64_lt(health_factor, Ratio(6, 5))

\* the sequences that hold every element of the set S once: the orders in
\* which a HashSet can be iterated
Orders(S) ==
    {o \in [1..Cardinality(S) -> S] :
        \A i, j \in DOMAIN o : i # j => o[i] # o[j]}

\* the loop over user_addresses: the (user_address, position) pairs pushed
RECURSIVE Opportunities(_, _)
Opportunities(positions, order) ==
    IF order = <<>> THEN <<>>
    ELSE LET user_address == Head(order)
             position == get_enhanced_user_position(positions, user_address)
             rest == Opportunities(positions, Tail(order))
         IN  IF /\ position # <<>>
                /\ NearLiquidation(position[1].aggregate_health_factor)
             THEN << <<user_address, position[1]>> >> \o rest
             ELSE rest

\* mutant of SortedInsert: the comparison is b against a, the largest health
\* factor comes first
RECURSIVE SortedInsert_Descending(_, _)
SortedInsert_Descending(s, x) ==
    IF s = <<>> THEN <<x>>
    ELSE IF partial_cmp(Head(s)[2].aggregate_health_factor,
                        x[2].aggregate_health_factor) = "Less"
    THEN <<x>> \o s
    ELSE <<Head(s)>> \o SortedInsert_Descending(Tail(s), x)

\* x put into the sorted s behind the entries that are not greater
RECURSIVE SortedInsert(_, _)
SortedInsert(s, x) ==
    IF s = <<>> THEN <<x>>
    ELSE IF partial_cmp(x[2].aggregate_health_factor,
                        Head(s)[2].aggregate_health_factor) = "Less"
    THEN <<x>> \o s
    ELSE <<Head(s)>> \o SortedInsert(Tail(s), x)

RECURSIVE StableSort(_)
StableSort(s) ==
    IF s = <<>> THEN <<>>
    ELSE SortedInsert(StableSort(SubSeq(s, 1, Len(s) - 1)), s[Len(s)])

\* opportunities.sort_by(|a, b| a.1.aggregate_health_factor
\*     .partial_cmp(&b.1.aggregate_health_factor).unwrap()): a stable sort.  A
\* slice of fewer than two entries is not compared; in a longer one every
\* entry is compared with another at least once, and the unwrap panics when
\* one of the two is NaN.
sort_by_health_factor(s) ==
    IF Len(s) >= 2
       /\ \E i \in DOMAIN s : s[i][2].aggregate_health_factor.kind = "NaN"
    THEN [panic |-> TRUE, value |-> <<>>]
    ELSE [panic |-> FALSE, value |-> StableSort(s)]

\* ChainFusionManager::get_liquidation_opportunities_enhanced; order is the
\* order in which the HashSet user_addresses is iterated
get_liquidation_opportunities_enhanced(positions, order) ==
    sort_by_health_factor(Opportunities(positions, order))

\* the sum of the u64 field f over the markets of chain ids ks, as f64
RECURSIVE SumMarkets(_, _, _)
SumMarkets(markets, ks, f) ==
    IF ks = {} THEN 0
    ELSE LET k == CHOOSE x \in ks : TRUE
         IN  markets[k][f] + SumMarkets(markets, ks \ {k}, f)

\* the ChainRate get_cross_chain_market_summary builds from one market; rate
\* is kept in the stored unit (the division by 1e18 is left out)
ChainRate(markets, chain_id, rate) ==
    [chain_id |-> chain_id,
     rate |-> markets[chain_id][rate],
     available_liquidity |-> markets[chain_id].cash]

\* mutant of RateInsert: the entry of the first chain with a symbol stays
RateInsert_KeepFirst(table, symbol, entry) ==
    IF symbol \in DOMAIN table THEN table ELSE Insert(table, symbol, entry)

\* supply_rates.insert(market.underlying_symbol.clone(), ChainRate {..}):
\* HashMap::insert replaces the entry of a key already present
RateInsert(table, symbol, entry) == Insert(table, symbol, entry)

\* the loop `for (chain_id, market) in &s.market_states` over the chain ids
\* ks still to visit: a BTreeMap iterates by ascending key
RECURSIVE RateLoop(_, _, _, _)
RateLoop(markets, ks, rate, table) ==
    IF ks = {} THEN table
    ELSE LET chain_id == CHOOSE c \in ks : \A d \in ks : c <= d
         IN  RateLoop(markets, ks \ {chain_id}, rate,
                      RateInsert(table, markets[chain_id].underlying_symbol,
                                 ChainRate(markets, chain_id, rate)))

\* the rate table of get_cross_chain_market_summary
RateTable(markets, rate) == RateLoop(markets, DOMAIN markets, rate, EmptyMap)

\* calculate_market_health: overall_utilization, the share of the stored
\* positions whose health_factor is below 1.2 (0.0 without positions)
calculate_market_health(positions) ==
    LET total_positions == Cardinality(DOMAIN positions)
        unhealthy_positions ==
            Cardinality({k \in DOMAIN positions :
                            f64_lt(positions[k].health_factor, Ratio(6, 5))})
    IN  [overall_utilization |->
            IF total_positions > 0
            THEN Ratio(unhealthy_positions, total_positions)
            ELSE Ratio(0, 1)]

\* ChainFusionManager::get_cross_chain_market_summary; liquidity_flows (a
\* mock list) is left out
get_cross_chain_market_summary(positions, markets) ==
    [total_supply_usd |-> SumMarkets(markets, DOMAIN markets, "total_supply"),
     total_borrow_usd |-> SumMarkets(markets, DOMAIN markets, "total_borrows"),
     best_supply_rates |-> RateTable(markets, "supply_rate"),
     best_borrow_rates |-> RateTable(markets, "borrow_rate"),
     market_health |-> calculate_market_health(positions)]

\* mutant of ApiResultOfOption: None is reported as an error
ApiResultOfOption_NotFound(option) ==
    IF option = <<>> THEN "Err(not found)" ELSE "Ok(json)"

\* lib.rs, the facade of an Option: Some(v) is Ok(json of v), None is
\* Ok("null"); serde_json::to_string does not fail on these types (a float
\* that is not finite is written as null)
ApiResultOfOption(option) ==
    IF option = <<>> THEN "Ok(null)" ELSE "Ok(json)"

\* the users queried: two with positions and one the store does not know
QueryUsers ==
    {AddressOfWord(UserWordA), AddressOfWord(UserWordB),
     "0xcccccccccccccccccccccccccccccccccccccccc"}

\* the contents of State::user_positions the queries are asked over: one
\* user on both configured chains and a second on one of them, each position
\* absent or with a collateral and a borrow value that is NaN or in
\* 0..MaxAmount
StoredKeys ==
    ({AddressOfWord(UserWordA)} \X {MonadChainId, BnbChainId})
        \cup {<<AddressOfWord(UserWordB), MonadChainId>>}

Amounts == (0..MaxAmount) \cup {F64_NAN_AMOUNT}

PositionStores ==
    UNION { [ks -> [user_address : {"?"}, chain_id : {0},
                    health_factor : {Ratio(1, 1)},
                    total_collateral_value_usd : Amounts,
                    total_borrow_value_usd : Amounts]] :
            ks \in SUBSET StoredKeys }

\* a store's positions carry the address and the chain id of their key
Keyed(store) ==
    [k \in DOMAIN store |->
        [store[k] EXCEPT !.user_address = k[1], !.chain_id = k[2]]]

\* state.rs MarketState, the fields the summary reads
MkMarket(chain_id, underlying_symbol, total_supply, total_borrows) ==
    [chain_id |-> chain_id, underlying_symbol |-> underlying_symbol,
     supply_rate |-> 3, borrow_rate |-> 5,
     total_supply |-> total_supply, total_borrows |-> total_borrows,
     cash |-> total_supply - total_borrows]

\* the contents of State::market_states the summary is asked over: no
\* market, one, or three of which two have the same symbol
MarketStores ==
    { EmptyMap,
      [c \in {BnbChainId} |-> MkMarket(c, "USDC", 2, 1)],
      [c \in {BnbChainId, JobDefaultChainId, MonadChainId} |->
          CASE c = BnbChainId -> MkMarket(c, "USDC", 2, 1)
            [] c = JobDefaultChainId -> MkMarket(c, "WMON", 1, 0)
            [] OTHER -> MkMarket(c, "USDC", 3, 2)] }

NoQuery == [op |-> "none", user_address |-> None, result |-> <<>>,
            panic |-> FALSE, api_result |-> None]

\* the query get_enhanced_user_position(user_address) of lib.rs
GetEnhancedUserPosition ==
    /\ \E user_address \in QueryUsers :
          LET position == get_enhanced_user_position(user_positions,
                                                     user_address)
          IN  query' = [op |-> "get_enhanced_user_position",
                        user_address |-> user_address,
                        result |-> position, panic |-> FALSE,
                        api_result |-> ApiResultOfOption(position)]
    /\ UNCHANGED <<guardVars, market_states, rpcVars, syncVars, user_positions,
                   ledgerVars, emVars>>

\* the query get_liquidation_opportunities_enhanced() of lib.rs; a panic
\* traps the call
GetLiquidationOpportunitiesEnhanced ==
    /\ \E order \in Orders({k[1] : k \in DOMAIN user_positions}) :
          LET r == get_liquidation_opportunities_enhanced(user_positions,
                                                          order)
          IN  query' = [op |-> "get_liquidation_opportunities_enhanced",
                        user_address |-> None,
                        result |-> r.value, panic |-> r.panic,
                        api_result |-> IF r.panic THEN "trap"
                                                  ELSE "Ok(json)"]
    /\ UNCHANGED <<guardVars, market_states, rpcVars, syncVars, user_positions,
                   ledgerVars, emVars>>

\* the query get_cross_chain_market_summary() of lib.rs
GetCrossChainMarketSummary ==
    /\ query' = [op |-> "get_cross_chain_market_summary",
                 user_address |-> None,
                 result |-> <<get_cross_chain_market_summary(user_positions,
                                                            market_states)>>,
                 panic |-> FALSE, api_result |-> "Ok(json)"]
    /\ UNCHANGED <<guardVars, market_states, rpcVars, syncVars, user_positions,
                   ledgerVars, emVars>>

NextQuery ==
    \/ GetEnhancedUserPosition
    \/ GetLiquidationOpportunitiesEnhanced
    \/ GetCrossChainMarketSummary

\* the health factors and total borrows calculate_liquidation_risk is applied
\* to: the tenths up to MaxTenths / 10 and the three special values
HealthFactors ==
    {Ratio(n, 10) : n \in 0..MaxTenths}
        \cup {F64_MAX, F64_INFINITY, F64_NAN}

\* get_enhanced_user_position, line 119: the call of
\* calculate_liquidation_risk, on any health factor and total borrow
CalculateLiquidationRisk ==
    /\ \E health_factor \in HealthFactors, total_borrow \in Amounts :
          query' = [op |-> "calculate_liquidation_risk",
                    user_address |-> None,
                    health_factor |-> health_factor,
                    total_borrow |-> total_borrow,
                    result |-> <<calculate_liquidation_risk(health_factor,
                                                           total_borrow)>>,
                    panic |-> FALSE, api_result |-> None]
    /\ UNCHANGED <<guardVars, market_states, rpcVars, syncVars, user_positions,
                   ledgerVars, emVars>>

NextRisk == CalculateLiquidationRisk

Init ==
    /\ current_provider_index = EmptyMap
    /\ call = NoCall
    /\ last_synced_blocks = EmptyMap
    /\ sync = IdleSync
    /\ all = IdleAll
    /\ reported = EmptyMap
    /\ user_positions = EmptyMap
    /\ market_states = EmptyMap
    /\ logs_to_process = EmptyMap
    /\ processed_logs = EmptyMap
    /\ ledger = InitLedger
    /\ em_positions = EmptyMap
    /\ em_markets = EmptyMap
    /\ em = IdleEm
    /\ active_tasks = {}
    /\ timer = [i \in Invocations |-> IdleTimer]
    /\ query = NoQuery

Next ==
    \/ SyncChainStart
    \/ CallUnconfigured
    \/ SyncAllStart
    \/ SyncAllNext
    \/ BlockNumberOk
    \/ BlockNumberErr
    \/ GetLogsOk
    \/ GetLogsErr
    \/ ProcessEvent
    \/ ProcessDone
    \/ SyncReturn
    \/ SyncAllDone
    \/ SyncAllReturn

Spec == Init /\ [][Next]_vars

SpecLedger == Init /\ [][NextLedger]_vars

SpecMonitor == Init /\ [][NextMonitor]_vars

SpecGuard == Init /\ [][NextGuard]_vars

\* the store is any of PositionStores, everything else as in Init
InitQuery ==
    /\ current_provider_index = EmptyMap
    /\ call = NoCall
    /\ last_synced_blocks = EmptyMap
    /\ sync = IdleSync
    /\ all = IdleAll
    /\ reported = EmptyMap
    /\ user_positions \in {Keyed(store) : store \in PositionStores}
    /\ market_states \in MarketStores
    /\ logs_to_process = EmptyMap
    /\ processed_logs = EmptyMap
    /\ ledger = InitLedger
    /\ em_positions = EmptyMap
    /\ em_markets = EmptyMap
    /\ em = IdleEm
    /\ active_tasks = {}
    /\ timer = [i \in Invocations |-> IdleTimer]
    /\ query = NoQuery

SpecQuery == InitQuery /\ [][NextQuery]_vars

SpecRisk == Init /\ [][NextRisk]_vars

SpecRotator == Init /\ [][NextRotator]_vars

----------------------------------------------------------------------------
\* Claims about the Chain Sync Engine and the Endpoint Rotator (Spec).

\* C4: for every chain the cursor last_synced_blocks[chain] never decreases
\* and its entry is never removed, whatever the endpoints report; every write
\* to the cursor (ProcessDone, the one insert of sync_chain_events) strictly
\* increases it.
C4_CursorMonotonic ==
    [][ /\ \A c \in ChainIds :
             /\ c \in DOMAIN last_synced_blocks
                    => c \in DOMAIN last_synced_blocks'
             /\ GetOr(last_synced_blocks', c, 0) >= GetOr(last_synced_blocks, c, 0)
             /\ Get(last_synced_blocks', c) # Get(last_synced_blocks, c)
                    => GetOr(last_synced_blocks', c, 0)
                          > GetOr(last_synced_blocks, c, 0)
        /\ ProcessDone =>
             last_synced_blocks'[sync.chain_id]
                > GetOr(last_synced_blocks, sync.chain_id, 0) ]_vars

\* C4 witness: a sync of a chain whose cursor was written before finished
\* after an endpoint reported a tip whose safe block is below that cursor.
C4_Witness ==
    /\ sync.pc = "done" /\ sync.result = "Ok"
    /\ sync.cursor0 # <<>> /\ sync.to_block # <<>>
    /\ sync.to_block[1] < sync.cursor0[1]
    /\ last_synced_blocks[sync.chain_id] = sync.cursor0[1]

\* C5: when sync_chain_events computed from >= to it returns Ok, has invoked
\* the log-fetch op on no endpoint, has handed no log to the event processor
\* and has left the chain's cursor as it was at entry.
C5_NoOpWhenNoNewBlocks ==
    (sync.pc = "done" /\ sync.to_block # <<>>
        /\ sync.from_block >= sync.to_block[1])
    => /\ sync.result = "Ok"
       /\ sync.get_logs_calls = 0
       /\ sync.window = <<>> /\ sync.attempted = <<>>
       /\ Get(last_synced_blocks, sync.chain_id) = sync.cursor0

\* C5 witness: a sync returned through the early return with a cursor already
\* set (from = to > 0).
C5_Witness ==
    /\ sync.pc = "done" /\ sync.to_block # <<>>
    /\ sync.from_block > 0 /\ sync.from_block = sync.to_block[1]

\* the endpoints of a chain in rotation order from index start
RotationOrder(chain_id, start) ==
    LET n == Cardinality(DOMAIN providers[chain_id])
    IN  [k \in 1..n |-> providers[chain_id][(start + k - 1) % n]]

\* C6: when call_with_fallback returns Ok, op was invoked on the endpoints in
\* rotation order from the index at entry, on each at most once and at most N
\* times in all; every endpoint before the last one failed, and the answer
\* returned is that of the last one, the first endpoint in rotation order that
\* succeeded.
C6_FirstSuccessReturned ==
    call.ret = "Ok" =>
        LET n == Cardinality(DOMAIN providers[call.chain_id])
            m == Len(call.tried)
            order == RotationOrder(call.chain_id, call.start)
        IN  /\ m >= 1 /\ m <= n
            /\ \A k \in 1..m : call.tried[k] = order[k]
            /\ \A j, k \in 1..m : j # k => call.tried[j] # call.tried[k]
            /\ \A k \in 1..(m - 1) : call.tried[k] \in call.failed
            /\ call.answered = order[m]
            /\ call.answered \notin call.failed

\* C6 witness: the call returned Ok from the second endpoint tried, having
\* started at rotation index 1.
C6_Witness ==
    /\ call.ret = "Ok" /\ call.start = 1 /\ Len(call.tried) = 2

\* C7: when every endpoint of a configured chain fails, call_with_fallback
\* has invoked op exactly N times, once on each endpoint, and the error is
\* returned (sync_chain_events ends with it); the loop never runs past one
\* round.
C7_AllProvidersFailed ==
    /\ (call.op # "none" /\ call.chain_id \in DOMAIN providers) =>
          /\ call.iter <= Cardinality(DOMAIN providers[call.chain_id])
          /\ Len(call.tried) <= Cardinality(DOMAIN providers[call.chain_id])
    /\ call.ret = "AllProvidersFailed" =>
          LET n == Cardinality(DOMAIN providers[call.chain_id])
          IN  /\ Len(call.tried) = n
              /\ {call.tried[k] : k \in 1..n}
                    = {providers[call.chain_id][i] : i \in 0..(n - 1)}
              /\ call.failed = {call.tried[k] : k \in 1..n}
              /\ sync.pc = "done"
              /\ sync.result = "Err(all providers failed)"
    /\ ~ ( /\ call.op # "none" /\ call.ret = "pending"
           /\ call.chain_id \in DOMAIN providers
           /\ call.failed = {providers[call.chain_id][i] :
                                i \in DOMAIN providers[call.chain_id]} )

\* C7 witness: every endpoint failed a call that started at rotation index 1.
C7_Witness ==
    /\ call.ret = "AllProvidersFailed" /\ call.start = 1

\* C8: when sync_chain_events ends because call_with_fallback failed on every
\* endpoint, while fetching the latest block number or while fetching logs, it
\* returns an error, the chain's cursor is as at entry and no log of the
\* window was handed to the event processor.
C8_FailureLeavesCursor ==
    (sync.pc = "done" /\ call.ret = "AllProvidersFailed")
    => /\ sync.result = "Err(all providers failed)"
       /\ sync.failed_in \in {"get_block_number", "get_logs"}
       /\ sync.failed_in = call.op
       /\ Get(last_synced_blocks, sync.chain_id) = sync.cursor0
       /\ sync.attempted = <<>> /\ sync.window = <<>>

\* C8 witness: the log fetch of a window with new blocks failed on every
\* endpoint, the chain having a cursor already.
C8_Witness ==
    /\ sync.pc = "done" /\ call.ret = "AllProvidersFailed"
    /\ sync.failed_in = "get_logs" /\ sync.cursor0 # <<>>

\* C9: when sync_all_chains returns, it returns Ok and has called
\* sync_chain_events exactly once for every configured chain, whichever of
\* them failed; while it runs no chain is visited twice.
C9_SyncAllVisitsEveryChain ==
    /\ \A c \in DOMAIN chain_configs : all.visits[c] <= 1
    /\ all.pc = "done" =>
          /\ all.result = "Ok"
          /\ \A c \in DOMAIN chain_configs : all.visits[c] = 1
          /\ all.failed \subseteq DOMAIN chain_configs

\* C9 witness: sync_all_chains returned after the sync of one chain failed
\* and the cursor of the other chain advanced.
C9_Witness ==
    /\ all.pc = "done"
    /\ all.failed = {BnbChainId} /\ all.advanced = {MonadChainId}

\* C11: the cursor of a chain is written only by a sync of that chain with
\* from < to whose fetched window has been handed to the event processor log
\* by log to its end, and it is then set to exactly to = latest_block -
\* confirmation_blocks; while logs of the window are still to be attempted the
\* cursor is as it was at entry.
C11_CursorAfterWholeWindow ==
    [][ /\ (sync.pc = "process_events" /\ sync.logs # <<>>)
             => Get(last_synced_blocks, sync.chain_id) = sync.cursor0
        /\ last_synced_blocks' # last_synced_blocks
             => /\ sync.pc = "process_events"
                /\ sync.logs = <<>> /\ sync.attempted = sync.window
                /\ sync.from_block < sync.to_block[1]
                /\ sync.to_block[1] =
                      sync.latest_block[1]
                        - chain_configs[sync.chain_id].confirmation_blocks
                /\ last_synced_blocks' =
                      Insert(last_synced_blocks, sync.chain_id,
                             sync.to_block[1]) ]_vars

\* C11 witness: a sync ended with the cursor moved to `to` after a window of
\* two logs, one of them without topics, was attempted to its end.
C11_Witness ==
    /\ sync.pc = "done" /\ sync.result = "Ok"
    /\ Len(sync.window) = 2 /\ sync.attempted = sync.window
    /\ \E k \in 1..2 : sync.window[k].topics = <<>>
    /\ sync.cursor0 # sync.to_block
    /\ Get(last_synced_blocks, sync.chain_id) = sync.to_block

\* C12: every to_block computed is max(latest_block - confirmation_blocks, 0);
\* every cursor is at most L - confirmation_blocks, L being the largest latest
\* block an endpoint reported for the chain; and the upper end of a window
\* being fetched or processed is at least confirmation_blocks below the tip
\* reported to that sync.
C12_ConfirmationDepth ==
    /\ \A c \in DOMAIN last_synced_blocks :
          /\ c \in DOMAIN reported
          /\ last_synced_blocks[c]
                <= reported[c] - chain_configs[c].confirmation_blocks
    /\ sync.to_block # <<>> =>
          LET conf == chain_configs[sync.chain_id].confirmation_blocks
              latest_block == sync.latest_block[1]
          IN  /\ sync.to_block[1] >= 0
              /\ sync.to_block[1] = Max(latest_block - conf, 0)
              /\ sync.pc \in {"get_logs", "process_events"}
                    => sync.to_block[1] + conf <= latest_block

\* C12 witness: an endpoint reported a tip below the confirmation depth (the
\* subtraction saturates at 0) while the cursor of the other chain stands
\* exactly confirmation_blocks below the largest tip reported for it.
C12_Witness ==
    /\ sync.latest_block # <<>>
    /\ sync.latest_block[1]
          < chain_configs[sync.chain_id].confirmation_blocks
    /\ sync.latest_block[1] > 0
    /\ sync.to_block = <<0>>
    /\ \E c \in DOMAIN last_synced_blocks :
          /\ c # sync.chain_id /\ last_synced_blocks[c] > 0
          /\ last_synced_blocks[c]
                = reported[c] - chain_configs[c].confirmation_blocks

\* C25: an operation on a chain id that is not configured fails with a
\* configuration error and is not retried: call_with_fallback returns the
\* error without invoking op on any endpoint and without changing a rotation
\* index; sync_chain_events returns the error without a call to an endpoint
\* and without a cursor entry for the chain.
C25_UnconfiguredChainFails ==
    [][ /\ (call'.op # "none" /\ call'.chain_id \notin DOMAIN providers)
            => /\ call'.ret = "Err(no providers configured)"
               /\ call'.tried = <<>> /\ call'.iter = 0
               /\ call' # call
                    => current_provider_index' = current_provider_index
        /\ (sync'.pc # "idle" /\ sync'.chain_id \notin DOMAIN chain_configs)
            => /\ sync'.pc = "done"
               /\ sync'.result = "Err(not configured)"
               /\ sync'.get_logs_calls = 0 /\ sync'.latest_block = <<>>
               /\ sync'.chain_id \notin DOMAIN last_synced_blocks'
               /\ sync.pc = "idle"
                    => /\ call' = call
                       /\ current_provider_index' = current_provider_index
                       /\ last_synced_blocks' = last_synced_blocks
      ]_vars

\* C25 witness: sync_chain_events(10143) has returned the configuration
\* error after call_with_fallback(10143, op) returned its own, with a cursor
\* of another chain and a rotation index already set.
C25_Witness ==
    /\ sync.pc = "done" /\ sync.chain_id = JobDefaultChainId
    /\ sync.result = "Err(not configured)"
    /\ call.chain_id = JobDefaultChainId
    /\ call.ret = "Err(no providers configured)"
    /\ DOMAIN last_synced_blocks # {}
    /\ \E c \in DOMAIN current_provider_index :
          current_provider_index[c] # 0

\* C26: the rotation index of a chain changes only in a step in which an
\* endpoint of that chain fails; when call_with_fallback has succeeded,
\* current(chain) is the endpoint that answered, and the next
\* call_with_fallback for the chain (the log fetch after the block number)
\* tries that endpoint first.
C26_StickyRotation ==
    [][ /\ current_provider_index' # current_provider_index
            => /\ call'.chain_id = call.chain_id
               /\ Len(call'.tried) = Len(call.tried) + 1
               /\ call'.tried[Len(call'.tried)] \in call'.failed
               /\ call'.answered = None
               /\ \A c \in ChainIds \ {call.chain_id} :
                     Get(current_provider_index', c)
                        = Get(current_provider_index, c)
        /\ call'.ret = "Ok"
            => get_provider(current_provider_index', call'.chain_id)
                  = call'.answered
        /\ sync'.block_number_from # None
            => /\ (sync.pc = "get_block_number")
                    => get_provider(current_provider_index', sync'.chain_id)
                          = sync'.block_number_from
               /\ (call'.op = "get_logs" /\ call'.tried # <<>>)
                    => call'.tried[1] = sync'.block_number_from
      ]_vars

\* C26 witness: the block number was answered by the second endpoint, where
\* an earlier failure of the first had left the index, and the log fetch that
\* followed was answered by the second endpoint at its first attempt.
C26_Witness ==
    /\ sync.pc = "process_events"
    /\ sync.block_number_from = providers[sync.chain_id][1]
    /\ call.op = "get_logs" /\ call.ret = "Ok"
    /\ call.tried = <<providers[sync.chain_id][1]>>
    /\ current_provider_index[sync.chain_id] = 1

\* C27: when call_with_fallback has failed with all N endpoints of the chain
\* failing, the rotation index of the chain is what it was before the call (N
\* circular rotations), so the next call starts from the endpoint the failed
\* call started from.
C27_IndexAfterAllFailed ==
    call.ret = "AllProvidersFailed" =>
        /\ Len(call.tried) = Cardinality(DOMAIN providers[call.chain_id])
        /\ call.tried[1] = providers[call.chain_id][call.start]
        /\ call.chain_id \in DOMAIN current_provider_index
        /\ current_provider_index[call.chain_id] = call.start
        /\ get_provider(current_provider_index, call.chain_id) = call.tried[1]

\* C27 witness: a call that started at index 1 has failed on both endpoints
\* and the index is 1 again.
C27_Witness ==
    /\ call.ret = "AllProvidersFailed"
    /\ call.start = 1
    /\ Len(call.tried) = 2
    /\ current_provider_index[call.chain_id] = 1

\* C28: the logs of a fetched window are handed to the event processor in
\* the order the endpoint returned them: after k logs have been attempted,
\* they are the first k of the window, the k-th was applied to the store as
\* left by the first k - 1, and the rest of the window is still to come.
C28_WindowOrder ==
    [][ /\ sync'.attempted \o sync'.logs = sync'.window
        /\ Len(sync'.attempted) = Len(sync.attempted) + 1
            => LET k == Len(sync'.attempted)
               IN  /\ sync'.window = sync.window
                   /\ sync'.attempted = SubSeq(sync.window, 1, k)
                   /\ user_positions'
                        = process_single_event(user_positions, sync.chain_id,
                                               sync.window[k]).positions
      ]_vars

\* C28 witness: a window of two different logs, the second a Mint, has been
\* processed to its end and the minter's position is stored.
C28_Witness ==
    /\ sync.pc = "process_events" /\ sync.logs = <<>>
    /\ Len(sync.window) = 2
    /\ sync.window[1] # sync.window[2]
    /\ sync.window[2].topics # <<>>
    /\ sync.window[2].topics[1] = MINT_EVENT_SIGNATURE
    /\ sync.attempted = sync.window
    /\ user_positions # EmptyMap

\* the blocks of the window an eth_getLogs request asks for: fromBlock and
\* toBlock are both inclusive
WindowBlocks(from_block, to_block) == from_block..to_block

\* C33: across the successful syncs of a chain a block lies in at most one
\* fetched window: while a sync fetches the logs of [from, to], the last block
\* of the window of the chain's previous successful sync (the cursor found at
\* entry, which is that window's `to`) is not a block of [from, to].
C33_WindowsDisjoint ==
    (sync.pc = "get_logs" /\ sync.cursor0 # <<>>)
    => sync.cursor0[1] \notin WindowBlocks(sync.from_block, sync.to_block[1])

\* C34: a sync of chain A, whether it succeeds or fails, leaves the cursor and
\* the rotation index of every other chain B as they were: no step of a
\* sync_chain_events(A) in progress changes last_synced_blocks or
\* current_provider_index at a chain id other than A.
C34_PerChainIsolation ==
    [][sync.pc # "idle" =>
          \A B \in ChainIds \ {sync.chain_id} :
              /\ Get(last_synced_blocks', B) = Get(last_synced_blocks, B)
              /\ Get(current_provider_index', B)
                    = Get(current_provider_index, B)]_vars

\* C34 witness: a sync of chain A that rotated A's endpoint and moved A's
\* cursor has returned Ok while another chain B has a cursor and a rotation
\* index of its own, at another endpoint than A's.
C34_Witness ==
    /\ sync.pc = "done" /\ sync.result = "Ok"
    /\ sync.cursor0 # sync.to_block
    /\ Get(last_synced_blocks, sync.chain_id) = sync.to_block
    /\ Len(call.tried) = 2
    /\ \E B \in DOMAIN chain_configs \ {sync.chain_id} :
          /\ B \in DOMAIN last_synced_blocks
          /\ B \in DOMAIN current_provider_index
          /\ current_provider_index[B]
                # GetOr(current_provider_index, sync.chain_id, 0)

\* C38: for every configured chain with N >= 1 endpoints the rotation index
\* is in [0, N) after any sequence of rotate_provider and call_with_fallback
\* calls, so get_provider returns an endpoint, and every iteration of the loop
\* of call_with_fallback has invoked op on an endpoint: the attempts made are
\* as many as the iterations run.
C38_IndexInRange ==
    /\ \A c \in DOMAIN providers :
          LET N == Cardinality(DOMAIN providers[c])
              i == GetOr(current_provider_index, c, 0)
          IN  N >= 1 =>
                 /\ 0 <= i /\ i < N
                 /\ get_provider(current_provider_index, c) = providers[c][i]
    /\ (call.op # "none" /\ call.chain_id \in DOMAIN providers) =>
          Len(call.tried) = call.iter + (IF call.ret = "Ok" THEN 1 ELSE 0)

\* C38 witness: a call on one chain has run both iterations with both
\* endpoints failing and left the chain's index wrapped round to 0, while the
\* index of the other chain stands at its last endpoint.
C38_Witness ==
    /\ call.ret = "AllProvidersFailed"
    /\ call.iter = 2 /\ Len(call.tried) = 2
    /\ Get(current_provider_index, call.chain_id) = <<0>>
    /\ \E other \in DOMAIN providers \ {call.chain_id} :
          Get(current_provider_index, other)
             = <<Cardinality(DOMAIN providers[other]) - 1>>

\* C18: every log the event processor of the sync engine has handled went
\* through the ledger: its LogSource is in the processed set (it was found
\* there and skipped, or recorded in flight, applied and then marked
\* processed), and a LogSource is in the processed set only if its delta has
\* been applied.
C18_DedupProtocol ==
    /\ \A k \in 1..Len(sync.attempted) :
          source(sync.attempted[k]) \in DOMAIN processed_logs
    /\ \A src \in (DOMAIN processed_logs) \cap LogSources :
          ledger.applied[src] >= 1

----------------------------------------------------------------------------
\* Claims about the Dedup Ledger (SpecLedger).

\* C1: after any sequence of record_log_to_process and record_processed_log
\* (job) calls, failed ones included, no LogSource is a key of both
\* logs_to_process and processed_logs, and every LogSource that was recorded
\* is a key of exactly one of them.
C1_LedgerDisjoint ==
    /\ (DOMAIN logs_to_process) \cap (DOMAIN processed_logs) = {}
    /\ ledger.recorded = (DOMAIN logs_to_process) \cup (DOMAIN processed_logs)

\* C1 witness: a recorded and processed source was offered to
\* record_log_to_process again, which failed, while another is in flight.
C1_Witness ==
    /\ ledger.last.op = "record_log_to_process" /\ ledger.last.panic
    /\ ledger.last.source \in DOMAIN processed_logs
    /\ DOMAIN logs_to_process # {}

\* C2: whatever the sequence of record_log_to_process and job invocations,
\* job reaches its event dispatch at most once per LogSource: a second job for
\* the same LogSource applies nothing.
C2_AppliedAtMostOnce ==
    \A src \in LogSources : ledger.applied[src] <= 1

\* C2 witness: job ran again for a source whose delta (a position created)
\* was applied before; this run panicked and the count stays at one.
C2_Witness ==
    \E src \in LogSources :
        /\ ledger.applied[src] = 1 /\ src \in DOMAIN processed_logs
        /\ ledger.last = [op |-> "job", source |-> src, panic |-> TRUE]
        /\ user_positions # EmptyMap

\* C16: a record_log_to_process for a LogSource that is a key of
\* processed_logs or of logs_to_process fails, and the failed call changes
\* neither map.
C16_RecordConflictFails ==
    [][ (ledger' # ledger /\ ledger'.last.op = "record_log_to_process"
            /\ ledger'.last.source
                  \in (DOMAIN logs_to_process) \cup (DOMAIN processed_logs))
        => /\ ledger'.last.panic
           /\ logs_to_process' = logs_to_process
           /\ processed_logs' = processed_logs
           /\ ledger'.recorded = ledger.recorded ]_vars

\* C16 witness: record_log_to_process just failed for a source that is in
\* flight, while another source is already processed.
C16_Witness ==
    /\ ledger.last.op = "record_log_to_process" /\ ledger.last.panic
    /\ ledger.last.source \in DOMAIN logs_to_process
    /\ DOMAIN processed_logs # {}

\* C17: a job (record_processed_log) for a LogSource that is not a key of
\* logs_to_process fails and changes nothing: both maps and every user
\* position are as before and the event dispatch is not reached.
C17_JobUnknownFails ==
    [][ (ledger' # ledger /\ ledger'.last.op = "job"
            /\ ledger'.last.source \notin DOMAIN logs_to_process)
        => /\ ledger'.last.panic
           /\ logs_to_process' = logs_to_process
           /\ processed_logs' = processed_logs
           /\ user_positions' = user_positions
           /\ ledger'.applied = ledger.applied ]_vars

\* C17 witness: a job just failed for a source that was never recorded, with
\* a position in the store and another source in flight.
C17_Witness ==
    /\ ledger.last.op = "job" /\ ledger.last.panic
    /\ ledger.last.source \notin ledger.recorded
    /\ user_positions # EmptyMap
    /\ DOMAIN logs_to_process # {}

\* C19: every stored UserPosition has health_factor = total_collateral_value_usd
\* / total_borrow_value_usd when total_borrow_value_usd > 0 and the maximal
\* sentinel otherwise, after every event kind and right after the position
\* was created.
C19_HealthFactorFormula ==
    \A key \in DOMAIN user_positions :
        LET position == user_positions[key]
        IN  IF position.total_borrow_value_usd > 0
            THEN /\ position.health_factor.kind = "finite"
                 /\ position.health_factor.num
                        * position.total_borrow_value_usd
                      = position.total_collateral_value_usd
                        * position.health_factor.den
            ELSE position.health_factor.kind \in {"INFINITY", "MAX"}

\* the key (user, chain) a log of one of the five kinds addresses: the user is
\* the second topic for Mint, Redeem and Borrow, the third for RepayBorrow and
\* LiquidateBorrow; <<>> when the log has another kind or too few topics
AddressedKey(log) ==
    IF Len(log.topics) = 0 THEN <<>>
    ELSE IF /\ log.topics[1] \in {Mint_SIGNATURE_HASH, Redeem_SIGNATURE_HASH,
                                   Borrow_SIGNATURE_HASH}
            /\ Len(log.topics) >= 2
    THEN << <<DebugOfWord(log.topics[2]), get_chain_id_from_log(log)>> >>
    ELSE IF /\ log.topics[1] \in {RepayBorrow_SIGNATURE_HASH,
                                   LiquidateBorrow_SIGNATURE_HASH}
            /\ Len(log.topics) >= 3
    THEN << <<DebugOfWord(log.topics[3]), get_chain_id_from_log(log)>> >>
    ELSE <<>>

\* C29: when job has processed a well-formed log of one of the five event
\* kinds, the UserPosition of the (user, chain) the log addresses exists in
\* user_positions, created by the event if it was absent.
C29_PositionCreatedLazily ==
    (ledger.last.op = "job" /\ ~ledger.last.panic) =>
        LET log == processed_logs[ledger.last.source]
        IN  AddressedKey(log) # <<>>
               => AddressedKey(log)[1] \in DOMAIN user_positions

\* C37: the processed set only grows: an entry of processed_logs stays, with
\* its log, in every later state and its LogSource never becomes a key of
\* logs_to_process again; a successful record_processed_log (the one job
\* begins with) moves exactly the given LogSource from logs_to_process to
\* processed_logs and leaves every other entry of both maps as it was.
C37_ProcessedOnlyGrows ==
    [][ /\ \A src \in DOMAIN processed_logs :
              /\ src \in DOMAIN processed_logs'
              /\ processed_logs'[src] = processed_logs[src]
              /\ src \notin DOMAIN logs_to_process'
        /\ (ledger' # ledger /\ ledger'.last.op = "job"
               /\ ~ ledger'.last.panic)
           => LET src == ledger'.last.source
              IN  /\ src \in DOMAIN logs_to_process
                  /\ src \notin DOMAIN processed_logs
                  /\ DOMAIN logs_to_process' = DOMAIN logs_to_process \ {src}
                  /\ \A other \in DOMAIN logs_to_process' :
                        logs_to_process'[other] = logs_to_process[other]
                  /\ DOMAIN processed_logs'
                        = DOMAIN processed_logs \cup {src}
                  /\ processed_logs'[src] = logs_to_process[src] ]_vars

\* C37 witness: a job has just moved its LogSource to the processed set,
\* which held another source before, while a third is still in flight.
C37_Witness ==
    /\ ledger.last.op = "job" /\ ~ ledger.last.panic
    /\ ledger.last.source \in DOMAIN processed_logs
    /\ Cardinality(DOMAIN processed_logs) = 2
    /\ DOMAIN logs_to_process # {}
    /\ ledger.last.source \notin DOMAIN logs_to_process

\* C35: every UserPosition of the store is keyed by a chain id of the chain
\* table of the Chain Sync Engine; no position is stored under a chain id
\* that table does not configure.
C35_PositionsOnConfiguredChains ==
    \A key \in DOMAIN user_positions : key[2] \in DOMAIN chain_configs

\* C30: UserPosition and MarketState entries are never deleted: every key of
\* user_positions and every key of market_states is still a key after any
\* step.
C30_EntriesNeverDeleted ==
    [][ /\ DOMAIN user_positions \subseteq DOMAIN user_positions'
        /\ DOMAIN market_states \subseteq DOMAIN market_states'
      ]_vars

\* C30 witness: the position the Mint log created is still stored after job
\* has processed the RepayBorrow log that addresses it.
C30_Witness ==
    /\ ledger.last.op = "job" /\ ~ledger.last.panic
    /\ ledger.last.source = <<"0x02", 0>>
    /\ <<"0x01", 0>> \in DOMAIN processed_logs
    /\ AddressedKey(processed_logs[<<"0x02", 0>>]) # <<>>
    /\ AddressedKey(processed_logs[<<"0x02", 0>>])[1]
          \in DOMAIN user_positions

----------------------------------------------------------------------------
\* Claims about replay and about a failing log (SpecMonitor).

EventSignatures ==
    {MINT_EVENT_SIGNATURE, REDEEM_EVENT_SIGNATURE, BORROW_EVENT_SIGNATURE,
     REPAY_BORROW_EVENT_SIGNATURE, LIQUIDATE_BORROW_EVENT_SIGNATURE}

----------------------------------------------------------------------------
\* Claims about the Task Guard (SpecGuard).

\* C13: under every interleaving of timer triggers and RPC answers, at most
\* one invocation owns a TimerGuard of a given TaskType; a trigger that fires
\* while the owner is suspended on an RPC is turned away and never gets past
\* TimerGuard::new.
C13_SingleFlight ==
    /\ \A i, j \in Invocations :
          (i # j /\ timer[i].guard /\ timer[j].guard)
             => timer[i].task_type # timer[j].task_type
    /\ \A i \in Invocations :
          (timer[i].acquire # None
              /\ timer[i].task_type \in timer[i].held)
             => /\ ~ timer[i].guard
                /\ timer[i].pc = "returned"
                /\ timer[i].result = "Err(already running)"

\* C13 witness: a second trigger of ScrapeLogs was turned away while the
\* first invocation is suspended on its log fetch, guard in hand.
C13_Witness ==
    \E i, j \in Invocations :
        /\ timer[i].guard /\ timer[i].task_type = "ScrapeLogs"
        /\ timer[i].pc = "get_logs"
        /\ timer[j].task_type = "ScrapeLogs"
        /\ timer[j].pc = "returned" /\ ~ timer[j].guard
        /\ timer[j].result = "Err(already running)"

\* C14: TimerGuard::new returns the 'already running' error exactly when the
\* task_type is in active_tasks; otherwise it inserts the task_type and
\* returns a guard.  A failed acquire leaves active_tasks as it was: the
\* holder's entry stays.
C14_AcquireFailsIffActive ==
    [][ \A i \in Invocations :
          (timer[i].pc = "idle" /\ timer'[i].pc # "idle") =>
             LET task_type == timer'[i].task_type
             IN  IF task_type \in active_tasks
                 THEN /\ timer'[i].acquire = "Err(already running)"
                      /\ ~ timer'[i].guard
                      /\ active_tasks' = active_tasks
                 ELSE /\ timer'[i].acquire = "Ok"
                      /\ timer'[i].guard
                      /\ active_tasks' = active_tasks \cup {task_type} ]_vars

\* C14 witness: an acquire of ProcessLogs failed while ProcessLogs and
\* ScrapeLogs are both held; both entries are still in active_tasks.
C14_Witness ==
    /\ active_tasks = TaskType
    /\ \E i \in Invocations :
          /\ timer[i].acquire = "Err(already running)"
          /\ timer[i].task_type = "ProcessLogs"
          /\ timer[i].held = TaskType

\* C36: guards of different task types are independent: TimerGuard::new of a
\* task type that is not active succeeds whatever other task type is held,
\* the drop of a guard removes its own task type and nothing else, and no
\* step of an invocation changes whether another task type is active.
C36_TaskTypesIndependent ==
    [][ \A i \in Invocations :
          LET task_type == IF timer[i].pc = "idle" THEN timer'[i].task_type
                           ELSE timer[i].task_type
          IN  /\ (/\ timer[i].pc = "idle" /\ timer'[i].pc # "idle"
                  /\ task_type \notin active_tasks)
                 => /\ timer'[i].acquire = "Ok"
                    /\ timer'[i].guard
              /\ (timer[i].guard /\ ~ timer'[i].guard)
                 => active_tasks' = active_tasks \ {task_type}
              /\ timer'[i] # timer[i]
                 => \A other \in TaskType \ {task_type} :
                       (other \in active_tasks') <=> (other \in active_tasks)
      ]_vars

\* C36 witness: an invocation acquired ScrapeLogs while ProcessLogs was held;
\* the holder of ProcessLogs has since ended and dropped its guard, and
\* ScrapeLogs alone is still active.
C36_Witness ==
    \E i, j \in Invocations :
        /\ timer[i].task_type = "ProcessLogs"
        /\ timer[i].pc = "returned" /\ timer[i].acquire = "Ok"
        /\ ~ timer[i].guard
        /\ timer[j].task_type = "ScrapeLogs"
        /\ timer[j].guard /\ timer[j].held = {"ProcessLogs"}
        /\ active_tasks = {"ScrapeLogs"}

\* C15: active_tasks holds a task_type if and only if an invocation owns a
\* guard of it; an invocation whose scope has ended, with success or with an
\* error, owns no guard, so its task_type is free again unless another
\* invocation has acquired it since.
C15_GuardReleased ==
    /\ active_tasks = { timer[i].task_type :
                          i \in { j \in Invocations : timer[j].guard } }
    /\ \A i \in Invocations :
          /\ timer[i].pc \in {"idle", "returned"} => ~ timer[i].guard
          /\ timer[i].pc \in {"get_block_number", "get_logs"}
                => timer[i].guard

\* C15 witness: an invocation of ScrapeLogs ended with an error, and a later
\* trigger of ScrapeLogs has acquired the guard.
C15_Witness ==
    \E i, j \in Invocations :
        /\ timer[i].pc = "returned" /\ timer[i].result = "Err(rpc)"
        /\ timer[i].task_type = "ScrapeLogs"
        /\ timer[j].guard /\ timer[j].task_type = "ScrapeLogs"
        /\ "ScrapeLogs" \notin timer[j].held

----------------------------------------------------------------------------
\* Claims about the Risk Aggregator (SpecQuery).

\* the value of field f of user's position on chain_id, 0 when there is none
StoredOn(user_address, chain_id, f) ==
    IF \E k \in DOMAIN user_positions :
          /\ user_positions[k].user_address = user_address
          /\ user_positions[k].chain_id = chain_id
    THEN LET k == CHOOSE x \in DOMAIN user_positions :
                    /\ user_positions[x].user_address = user_address
                    /\ user_positions[x].chain_id = chain_id
         IN  user_positions[k][f]
    ELSE 0

\* C20: get_enhanced_user_position(user) returns as total_collateral and
\* total_borrow the sums of total_collateral_value_usd and of
\* total_borrow_value_usd over the stored positions of user on all chains and
\* of no other user, and as aggregate_health_factor total_collateral /
\* total_borrow when total_borrow > 0, the maximal sentinel otherwise.
C20_CrossChainAggregate ==
    (query.op = "get_enhanced_user_position" /\ query.result # <<>>) =>
        LET user == query.user_address
            total_collateral ==
                f64_add(f64_add(
                    StoredOn(user, MonadChainId, "total_collateral_value_usd"),
                    StoredOn(user, BnbChainId, "total_collateral_value_usd")),
                    StoredOn(user, JobDefaultChainId,
                             "total_collateral_value_usd"))
            total_borrow ==
                f64_add(f64_add(
                    StoredOn(user, MonadChainId, "total_borrow_value_usd"),
                    StoredOn(user, BnbChainId, "total_borrow_value_usd")),
                    StoredOn(user, JobDefaultChainId, "total_borrow_value_usd"))
            got == query.result[1]
        IN  /\ got.total_collateral_usd = total_collateral
            /\ got.total_borrow_usd = total_borrow
            /\ IF f64_gt(total_borrow, 0)
               THEN IF is_nan(total_collateral)
                    THEN got.aggregate_health_factor.kind = "NaN"
                    ELSE /\ got.aggregate_health_factor.kind = "finite"
                         /\ got.aggregate_health_factor.num * total_borrow
                              = total_collateral
                                  * got.aggregate_health_factor.den
               ELSE got.aggregate_health_factor.kind \in {"INFINITY", "MAX"}

\* C20 witness: the user queried has positions on both chains (collateral 2
\* and 1, borrow 1 and 1), another user has a position with a borrow, and the
\* answer is collateral 3, borrow 2, health factor 3/2.
C20_Witness ==
    /\ query.op = "get_enhanced_user_position"
    /\ query.result # <<>>
    /\ query.result[1].positions_by_chain = {MonadChainId, BnbChainId}
    /\ query.result[1].total_collateral_usd = 3
    /\ query.result[1].total_borrow_usd = 2
    /\ query.result[1].aggregate_health_factor = Ratio(3, 2)
    /\ \E k \in DOMAIN user_positions :
          /\ k[1] # query.user_address
          /\ user_positions[k].total_borrow_value_usd > 0

\* the aggregate health factor of a user with stored positions
AggregateOf(user_address) ==
    get_enhanced_user_position(user_positions, user_address)[1]
        .aggregate_health_factor

\* the users that have a stored position
StoredUsers == {k[1] : k \in DOMAIN user_positions}

\* C22: get_liquidation_opportunities_enhanced returns exactly the distinct
\* users whose aggregate health factor is below 1.2, each once and with its
\* aggregate position, in ascending order of the aggregate health factor; no
\* user with an aggregate health factor of 1.2 or more, or with a total
\* borrow of zero, is returned.
C22_LiquidationCandidates ==
    (query.op = "get_liquidation_opportunities_enhanced" /\ ~query.panic) =>
        LET got == query.result
        IN  /\ \A i, j \in DOMAIN got : i # j => got[i][1] # got[j][1]
            /\ {got[i][1] : i \in DOMAIN got}
                 = {u \in StoredUsers :
                       /\ AggregateOf(u).kind = "finite"
                       /\ 5 * AggregateOf(u).num < 6 * AggregateOf(u).den}
            /\ \A i \in DOMAIN got :
                  /\ got[i][2]
                       = get_enhanced_user_position(user_positions,
                                                    got[i][1])[1]
                  /\ got[i][2].total_borrow_usd > 0
            /\ \A i, j \in DOMAIN got :
                  i < j =>
                     got[i][2].aggregate_health_factor.num
                           * got[j][2].aggregate_health_factor.den
                        <= got[j][2].aggregate_health_factor.num
                           * got[i][2].aggregate_health_factor.den

\* C22 witness: two users are returned, the second holds positions on both
\* chains and has the larger aggregate health factor, and a position with a
\* borrow of zero is stored.
C22_Witness ==
    /\ query.op = "get_liquidation_opportunities_enhanced"
    /\ Len(query.result) = 2
    /\ query.result[2][2].positions_by_chain = {MonadChainId, BnbChainId}
    /\ f64_lt(query.result[1][2].aggregate_health_factor,
              query.result[2][2].aggregate_health_factor)
    /\ \E k \in DOMAIN user_positions :
          user_positions[k].total_borrow_value_usd = 0

\* C23: get_liquidation_opportunities_enhanced does not panic, whatever the
\* store holds: the sort compares no health factor that is NaN, and the
\* facade answers Ok.
C23_CandidatesNeverPanic ==
    query.op = "get_liquidation_opportunities_enhanced" =>
        /\ ~query.panic
        /\ query.api_result = "Ok(json)"
        /\ \A i \in DOMAIN query.result :
              query.result[i][2].aggregate_health_factor.kind = "finite"

\* C23 witness: the store holds a user whose aggregate health factor is NaN
\* next to a user below 1.2, and the query returned the latter alone.
C23_Witness ==
    /\ query.op = "get_liquidation_opportunities_enhanced"
    /\ ~query.panic
    /\ Len(query.result) = 1
    /\ \E u \in StoredUsers : AggregateOf(u).kind = "NaN"

\* C24: the read-only queries answer missing data with a neutral result and
\* not with an error: get_enhanced_user_position of a user without stored
\* positions is None, which the facade reports as Ok("null"); with an empty
\* position store get_liquidation_opportunities_enhanced returns the empty
\* list; with empty stores get_cross_chain_market_summary returns totals of
\* zero and empty rate tables.
C24_MissingDataIsNeutral ==
    /\ (/\ query.op = "get_enhanced_user_position"
        /\ query.user_address \notin StoredUsers)
       => /\ query.result = <<>>
          /\ ~query.panic
          /\ query.api_result = "Ok(null)"
    /\ (/\ query.op = "get_liquidation_opportunities_enhanced"
        /\ user_positions = EmptyMap)
       => /\ query.result = <<>>
          /\ ~query.panic
          /\ query.api_result = "Ok(json)"
    /\ (/\ query.op = "get_cross_chain_market_summary"
        /\ market_states = EmptyMap)
       => /\ query.result[1].total_supply_usd = 0
          /\ query.result[1].total_borrow_usd = 0
          /\ DOMAIN query.result[1].best_supply_rates = {}
          /\ DOMAIN query.result[1].best_borrow_rates = {}
          /\ ~query.panic
          /\ query.api_result = "Ok(json)"
          /\ user_positions = EmptyMap
               => query.result[1].market_health.overall_utilization
                     = Ratio(0, 1)

\* C24 witness: a user without positions was queried on a store that holds
\* positions of two other users, and the answer is None, reported as
\* Ok("null").
C24_Witness ==
    /\ query.op = "get_enhanced_user_position"
    /\ query.user_address \notin StoredUsers
    /\ Cardinality(StoredUsers) = 2
    /\ query.result = <<>>
    /\ query.api_result = "Ok(null)"

\* the field f of the market stored for a chain, 0 without one
MarketFieldOn(chain_id, f) ==
    IF chain_id \in DOMAIN market_states THEN market_states[chain_id][f]
    ELSE 0

\* C32: the market summary returns total supply and total borrow equal to
\* the sums over the MarketState of all chains, and each rate table holds
\* exactly one entry per distinct underlying_symbol: of the chains that share
\* a symbol the entry is that of the highest chain id, the entries of the
\* others having been overwritten.
C32_MarketSummary ==
    query.op = "get_cross_chain_market_summary" =>
        LET r == query.result[1]
            symbols == {market_states[c].underlying_symbol :
                           c \in DOMAIN market_states}
            highest(sym) ==
                CHOOSE c \in DOMAIN market_states :
                    /\ market_states[c].underlying_symbol = sym
                    /\ \A d \in DOMAIN market_states :
                          market_states[d].underlying_symbol = sym => d <= c
        IN  /\ DOMAIN market_states \subseteq ChainIds
            /\ r.total_supply_usd
                  = MarketFieldOn(BnbChainId, "total_supply")
                    + MarketFieldOn(JobDefaultChainId, "total_supply")
                    + MarketFieldOn(MonadChainId, "total_supply")
            /\ r.total_borrow_usd
                  = MarketFieldOn(BnbChainId, "total_borrows")
                    + MarketFieldOn(JobDefaultChainId, "total_borrows")
                    + MarketFieldOn(MonadChainId, "total_borrows")
            /\ DOMAIN r.best_supply_rates = symbols
            /\ DOMAIN r.best_borrow_rates = symbols
            /\ \A sym \in symbols :
                  /\ r.best_supply_rates[sym]
                        = [chain_id |-> highest(sym),
                           rate |-> market_states[highest(sym)].supply_rate,
                           available_liquidity |->
                              market_states[highest(sym)].cash]
                  /\ r.best_borrow_rates[sym]
                        = [chain_id |-> highest(sym),
                           rate |-> market_states[highest(sym)].borrow_rate,
                           available_liquidity |->
                              market_states[highest(sym)].cash]

\* C32 witness: the summary was asked over three markets of which those of
\* chain 97 and chain 41454 share a symbol; the tables have two entries and
\* the shared symbol's entry is that of chain 41454.
C32_Witness ==
    /\ query.op = "get_cross_chain_market_summary"
    /\ Cardinality(DOMAIN market_states) = 3
    /\ market_states[BnbChainId].underlying_symbol
          = market_states[MonadChainId].underlying_symbol
    /\ Cardinality(DOMAIN query.result[1].best_supply_rates) = 2
    /\ query.result[1].best_supply_rates["USDC"].chain_id = MonadChainId
    /\ query.result[1].total_supply_usd = 6

----------------------------------------------------------------------------
\* Claims about calculate_liquidation_risk (SpecRisk).

\* C21: the risk level is a total function of the health factor h: Critical
\* when h < 1.0, High when 1.0 <= h < 1.1, Medium when 1.1 <= h < 1.3, Low
\* when h >= 1.3, the maximal sentinel included; so 1.0 is High, 1.1 is
\* Medium and 1.3 is Low.
C21_RiskClassification ==
    query.op = "calculate_liquidation_risk" =>
        LET h == query.health_factor
            level == query.result[1].risk_level
        IN  /\ level \in {"Critical", "High", "Medium", "Low"}
            /\ h.kind = "finite" =>
                  /\ (h.num < h.den) => level = "Critical"
                  /\ (h.num >= h.den /\ 10 * h.num < 11 * h.den)
                        => level = "High"
                  /\ (10 * h.num >= 11 * h.den /\ 10 * h.num < 13 * h.den)
                        => level = "Medium"
                  /\ (10 * h.num >= 13 * h.den) => level = "Low"
            /\ h.kind \in {"MAX", "INFINITY"} => level = "Low"

\* C21 witness: calculate_liquidation_risk was applied to 1.1 and answered
\* Medium.
C21_Witness ==
    /\ query.op = "calculate_liquidation_risk"
    /\ query.health_factor = Ratio(11, 10)
    /\ query.result[1].risk_level = "Medium"

====
